---- MODULE Spec2Model ----
(***************************************************************************)
(* Cross-process GPU resource handoff of the decoupled renderer/upscaler   *)
(* sample: the shared-memory ring (TSROps, TSRRenderModule), the network   *)
(* buffer ring (BufferRing) and their callers.                             *)
(***************************************************************************)
EXTENDS Integers, Sequences, FiniteSets, TLC

(***************************************************************************)
(* Bounds of the model                                                     *)
(***************************************************************************)
\* largest ring size (GetBufferCount) the configuration is drawn from
MaxBufferCount == 2
\* frames each process may start
MaxFrames == 3
\* command lists a process may have submitted and not yet executed
MaxInFlight == 2
\* largest width, height and stride of a surface in the round-trip runs
MaxDim == 2
\* round trips through the ring in the round-trip runs
MaxRoundTrips == 2
\* threads that call into the network buffer ring
NumThreads == 2
\* largest buffer size a resize or a sender may ask for
MaxBufferSize == 2
\* calls on the ring's interface that are remembered
MaxLog == 2
\* units a socket holds in one direction before send blocks
MaxStream == 3
\* Continue messages HandleRenderer sends before the connection is left alone
MaxRequests == 3
\* entries of m_FrameTimeHistory (scaled down)
FrameTimeHistoryLen == 2
\* calls of FPSLimiterRenderModule::Execute
MaxExecutes == 3
\* ticks of the performance counter per second (scaled down)
QpcFrequency == 100
\* ticks the work between the calls of Execute may take in all
MaxWork == 1
\* ticks by which a poll of TimerSleepQPC may come after its deadline
MaxOvershoot == 1
\* m_Overhead is kept to 1 / OverheadScale
OverheadScale == 1000
\* buffers handed to the producer between two resets
MaxFifo == 3

\* the width of int in bits, scaled down; size_t is twice as wide
IntBits == 6
\* runs of the destructor on one TSROps and its copies
MaxTeardowns == 2
\* back buffers of the swap chain (GetBackBufferCount)
BackBufferCount == 2
\* calls of Streamer::Encode, and of ExecuteCopyCommand
MaxEncodes == 3

(***************************************************************************)
(* TSROps::BufferState                                                     *)
(***************************************************************************)
IDLE == 0
READY == 1

\* FSRResources is std::array<const TSRGraphicsResource*, 3>
NumResources == 3

NULL == "nullptr"

Procs == {"R", "U"}

VARIABLES
    m_BufferCount,   \* TSROps::m_BufferCount, the same configuration value in both processes
    m_pSharedName,   \* TSROps::m_pSharedName per process
    namedObjects,    \* the OS directory of named shared handles: name -> kernel object
    p_SharedBuffer,  \* TSROps::p_SharedBuffer per process: slot -> <<resource, fence>>
    fence,           \* completed value of every fence object
    shared,          \* bytes of every shared buffer object
    pResources,      \* the surface list: index -> [Width, Height, stride]
    surf,            \* per process, the bytes of each of its surfaces
    bufferIndex,     \* the framework's buffer index per process
    frames,          \* frame bodies started per process
    pc,              \* position of each process's main loop
    fault,           \* which critical assertion terminated the process
    cmdList,         \* the open command list of the current frame, per process
    queue,           \* the D3D12 command queue of each process, in submission order
    gpuExec,         \* the command list the GPU is executing, per process
    produced,        \* frames the renderer recorded a copy into the ring for
    consumed,        \* surface contents the upscaler worked on after copying out
    toCount,         \* per slot, TransferToSharedBuffer calls that passed the assertion
    everReady,       \* per slot, whether the counter has read READY
    mState,          \* BufferRing::mState: index -> BufferState
    mBuffers,        \* BufferRing::mBuffers: index -> the storage the FSRData owns
    mBufferSize,     \* BufferRing::mBufferSize
    mReadIndex,      \* BufferRing::mReadIndex, kept modulo the ring's length
    mWriteIndex,     \* BufferRing::mWriteIndex, kept modulo the ring's length
    mStateLock,      \* holder of BufferRing::mStateLock, or Unlocked
    mWriteLock,      \* holder of BufferRing::mWriteLock, or Unlocked
    mReadLock,       \* holder of BufferRing::mReadLock, or Unlocked
    tpc,             \* position of each thread that uses the ring
    tbuf,            \* per thread, the local FSRData* buffer
    treq,            \* per thread, the local size (requested size, or the size of a reset)
    handout,         \* per buffer, the history of its last hand-out by getNextEmptyBuffer
    apiLog,          \* the calls made on the ring by callers of its interface, with their results
    run,             \* the results of getNextEmptyBuffer since the ring was last all Empty
    toRenderer,      \* the bytes the relay has sent that HandleRelay has not received yet
    toRelay,         \* the bytes the renderer has sent that HandleRenderer has not received yet
    relay,           \* HandleRenderer in the relay process: its position and its locals
    relayQueue,      \* Connection::mQueue of the relay process
    acked,           \* the resolution of the last Reconfigure HandleRelay has acknowledged
    m_RelayMode,     \* FSRRemoteRenderModule::m_RelayMode
    m_Connected,     \* FSRRemoteRenderModule::m_Connected
    m_isPipeOpen,    \* Streamer::m_isPipeOpen
    m_frameIndex,    \* Streamer::m_frameIndex
    m_encodeMutex,   \* holder of Streamer::m_encodeMutex, or Unlocked
    m_bufferMutex,   \* holder of Streamer::m_bufferMutex, or Unlocked
    enc,             \* per thread, its call of Encode: position, backbufferIndex, tries, WriteFile calls
    written,         \* the back buffers whose frame WriteFile has written whole, in order
    copies,          \* the copies ExecuteCopyCommand has recorded
    gaveUp,          \* an Encode has used up its tries
    sfault,          \* whether a critical error has ended the streaming process
    shutdown,        \* position of Streamer::Shutdown
    encodes,         \* calls of Encode so far
    nextBackBuffer,  \* the back buffer the next call of Encode is for
    m_LimitFPS,      \* FPSLimiterRenderModule::m_LimitFPS
    m_LimitGPU,      \* FPSLimiterRenderModule::m_LimitGPU
    m_TargetFPS,     \* FPSLimiterRenderModule::m_TargetFPS
    qpc,             \* the value QueryPerformanceCounter returns now
    lastFrame,       \* the static lastFrame of the CPU limiter
    lim,             \* the call of FPSLimiterRenderModule::Execute: position, deadline, and what a test measures
    m_Overhead,      \* FPSLimiterRenderModule::m_Overhead, in units of 1 / OverheadScale
    m_FrameTimeHistory,      \* FPSLimiterRenderModule::m_FrameTimeHistory
    m_FrameTimeHistorySum,   \* FPSLimiterRenderModule::m_FrameTimeHistorySum
    m_FrameTimeHistoryCount, \* FPSLimiterRenderModule::m_FrameTimeHistoryCount
    released,        \* per process and slot, the Release calls made on the resource and on the fence
    teardowns,       \* per process, the runs of TSROps::~TSROps on its TSROps or on a copy of it
    udta,            \* the arguments of tsr_map_udta / tsr_unmap_udta, and the calls made on the OS
    fifo,            \* the buffers handed to the producer and to the consumer since the last reset, in order
    xfer             \* a payload transfer of HandleRelay or HandleRenderer: position, bufferSize, the length passed on

shmVars == <<m_BufferCount, m_pSharedName, namedObjects, p_SharedBuffer, fence, shared,
             pResources, surf, bufferIndex, frames, pc, fault, cmdList, queue, gpuExec,
             produced, consumed, toCount, everReady>>

ringVars == <<mState, mBuffers, mBufferSize, mReadIndex, mWriteIndex, mStateLock, mWriteLock, mReadLock,
              tpc, tbuf, treq, handout>>

apiVars == <<apiLog, run>>

netVars == <<toRenderer, toRelay, relay, relayQueue, acked>>

gateVars == <<m_RelayMode, m_Connected>>

streamVars == <<m_isPipeOpen, m_frameIndex, m_encodeMutex, m_bufferMutex, enc, written, copies,
                gaveUp, sfault, shutdown, encodes, nextBackBuffer>>

limVars == <<m_LimitFPS, m_LimitGPU, m_TargetFPS, qpc, lastFrame, lim, m_Overhead,
             m_FrameTimeHistory, m_FrameTimeHistorySum, m_FrameTimeHistoryCount>>

tdVars == <<released, teardowns, udta>>

fifoVars == <<fifo>>

castVars == <<xfer>>

\* the variables of the parts after the teardown
rest5Vars == <<fifoVars, castVars>>

\* the variables of the parts after the frame limiter
rest4Vars == <<tdVars, rest5Vars>>

\* the variables of the parts after the streamer
rest3Vars == <<limVars, rest4Vars>>

\* the variables of the parts after the remote render module
rest2Vars == <<streamVars, rest3Vars>>

\* the variables of the parts after the ring and the connection
restVars == <<gateVars, rest2Vars>>

vars == <<shmVars, ringVars, apiVars, netVars, restVars>>

Slots == 0 .. (m_BufferCount - 1)
ResIdx == 0 .. (NumResources - 1)

(***************************************************************************)
(* Surfaces                                                                *)
(***************************************************************************)
SurfaceSize(r) == r.Width * r.Height * r.stride

\* the loop of CalculateTotalSize with the stride left out of the product
RECURSIVE CalculateTotalSizeFrom_NoStride(_, _, _)
CalculateTotalSizeFrom_NoStride(res, i, totalSize) ==
    IF i < NumResources
    THEN CalculateTotalSizeFrom_NoStride(res, i + 1, totalSize + res[i].Width * res[i].Height)
    ELSE totalSize

\* TSROps::CalculateTotalSize: the loop over pResources
RECURSIVE CalculateTotalSizeFrom(_, _, _)
CalculateTotalSizeFrom(res, i, totalSize) ==
    IF i < NumResources
    THEN CalculateTotalSizeFrom(res, i + 1, totalSize + res[i].Width * res[i].Height * res[i].stride)
    ELSE totalSize

CalculateTotalSize(res) == CalculateTotalSizeFrom(res, 0, 0)

\* the bytes of frame f in a surface list: byte j of surface k holds a value of its own
FrameContent(res, f) == [k \in ResIdx |-> [j \in 0 .. (SurfaceSize(res[k]) - 1) |-> <<f, k, j>>]]

\* the byte a freshly created shared buffer holds everywhere
ZeroByte == <<0, 0, 0>>

UnitResources == [k \in ResIdx |-> [Width |-> 1, Height |-> 1, stride |-> 1]]

(***************************************************************************)
(* Names of the shared handles                                             *)
(***************************************************************************)
Digit(d) ==
    CASE d = 0 -> "0" [] d = 1 -> "1" [] d = 2 -> "2" [] d = 3 -> "3" [] d = 4 -> "4"
      [] d = 5 -> "5" [] d = 6 -> "6" [] d = 7 -> "7" [] d = 8 -> "8" [] OTHER -> "9"

\* std::to_wstring of an unsigned index
RECURSIVE to_wstring(_)
to_wstring(i) == IF i < 10 THEN Digit(i) ELSE to_wstring(i \div 10) \o Digit(i % 10)

\* the resource's name built without the slot index
resourceName_NoIndex(name, i) == name \o "_RESOURCE"

resourceName(name, i) == name \o to_wstring(i) \o "_RESOURCE"
fenceName(name, i) == name \o to_wstring(i) \o "_FENCE"

(***************************************************************************)
(* Commands and queue entries                                              *)
(***************************************************************************)
RenderCmd(f) == [op |-> "render", res |-> 0, buf |-> NULL, offset |-> 0, size |-> 0, to |-> TRUE, frame |-> f]
ConsumeCmd == [op |-> "consume", res |-> 0, buf |-> NULL, offset |-> 0, size |-> 0, to |-> FALSE, frame |-> 0]
BarrierCmd(k, toShared, back) ==
    [op |-> IF back THEN "barrierBack" ELSE "barrier", res |-> k, buf |-> NULL, offset |-> 0, size |-> 0,
     to |-> toShared, frame |-> 0]
CopyCmd(k, b, o, s, toShared) ==
    [op |-> "copy", res |-> k, buf |-> b, offset |-> o, size |-> s, to |-> toShared, frame |-> 0]

SignalEntry(f, v) == [op |-> "signal", fence |-> f, value |-> v, cmds |-> <<>>]
ListEntry(cmds) == [op |-> "list", fence |-> NULL, value |-> 0, cmds |-> cmds]

\* command lists of process p that are submitted and not yet completely executed
InFlight(p) ==
    Cardinality({n \in 1 .. Len(queue[p]) : queue[p][n].op = "list"})
        + (IF gpuExec[p] # <<>> THEN 1 ELSE 0)

(***************************************************************************)
(* TSROps                                                                  *)
(***************************************************************************)
\* ID3D12Fence::GetCompletedValue() == state on the slot's fence
bufferStateMatches(p, i, state) == fence[p_SharedBuffer[p][i][2]] = state

\* TSROps::bufferStateMatchesAll: the loop over the slots with its early return
RECURSIVE bufferStateMatchesAllFrom(_, _, _)
bufferStateMatchesAllFrom(p, i, state) ==
    IF i < m_BufferCount
    THEN IF ~bufferStateMatches(p, i, state) THEN FALSE ELSE bufferStateMatchesAllFrom(p, i + 1, state)
    ELSE TRUE

\* the loop started one slot too late
bufferStateMatchesAll_SkipFirst(p, state) == bufferStateMatchesAllFrom(p, 1, state)

bufferStateMatchesAll(p, state) == bufferStateMatchesAllFrom(p, 0, state)

\* the per-surface loop of PerformTransfer: barrier, copy at the running offset, barrier back
RECURSIVE RecordSurfaces(_, _, _, _, _, _)
RecordSurfaces(res, i, offset, pSharedResource, toSharedBuffer, cmds) ==
    IF i < NumResources
    THEN LET size == res[i].Width * res[i].Height * res[i].stride
         IN RecordSurfaces(res, i + 1, offset + size, pSharedResource, toSharedBuffer,
                cmds \o << BarrierCmd(i, toSharedBuffer, FALSE),
                           CopyCmd(i, pSharedResource, offset, size, toSharedBuffer),
                           BarrierCmd(i, toSharedBuffer, TRUE) >>)
    ELSE cmds

\* the state after AssertCritical failed: MessageBoxW, then std::terminate
Terminate(p, why) ==
    /\ pc' = [pc EXCEPT ![p] = "terminated"]
    /\ fault' = [fault EXCEPT ![p] = why]

\* TSROps::CreateSharedBuffers with shouldCreate: one slot of the creating loop
RECURSIVE CreateLoop(_, _, _)
CreateLoop(name, i, st) ==
    IF i < m_BufferCount /\ st.ok
    THEN LET rn == resourceName(name, i)
             fn == fenceName(name, i)
             withRes == (rn :> [kind |-> "RESOURCE", id |-> i]) @@ st.named
         IN IF rn \in DOMAIN st.named \/ fn \in DOMAIN withRes
            THEN [st EXCEPT !.ok = FALSE]
            ELSE CreateLoop(name, i + 1,
                    [ok |-> TRUE,
                     named |-> (fn :> [kind |-> "FENCE", id |-> i]) @@ withRes,
                     handles |-> (i :> <<i, i>>) @@ st.handles])
    ELSE st

\* TSROps::CreateSharedBuffers without shouldCreate: one slot of the opening loop
RECURSIVE OpenLoop(_, _, _)
OpenLoop(name, i, st) ==
    IF i < m_BufferCount /\ st.ok
    THEN LET rn == resourceName(name, i)
             fn == fenceName(name, i)
         IN IF /\ rn \in DOMAIN st.named /\ st.named[rn].kind = "RESOURCE"
               /\ fn \in DOMAIN st.named /\ st.named[fn].kind = "FENCE"
            THEN OpenLoop(name, i + 1,
                    [st EXCEPT !.handles = (i :> <<st.named[rn].id, st.named[fn].id>>) @@ st.handles])
            ELSE [st EXCEPT !.ok = FALSE]
    ELSE st

EmptyFn == [x \in {} |-> 0]

CreateSharedBuffers(p) ==
    /\ pc[p] = "init"
    /\ LET shouldCreate == (p = "R")
           st0 == [ok |-> TRUE, named |-> namedObjects, handles |-> EmptyFn]
           st == IF shouldCreate THEN CreateLoop(m_pSharedName[p], 0, st0)
                 ELSE OpenLoop(m_pSharedName[p], 0, st0)
       IN IF st.ok
          THEN /\ namedObjects' = st.named
               /\ p_SharedBuffer' = [p_SharedBuffer EXCEPT ![p] = st.handles]
               /\ IF shouldCreate
                  THEN /\ fence' = [i \in Slots |-> IDLE]
                       /\ shared' = [i \in Slots |->
                                       [x \in 0 .. (CalculateTotalSize(pResources) - 1) |-> ZeroByte]]
                  ELSE UNCHANGED <<fence, shared>>
               /\ pc' = [pc EXCEPT ![p] = "poll"]
               /\ UNCHANGED fault
          ELSE /\ Terminate(p, "handle")
               /\ UNCHANGED <<namedObjects, p_SharedBuffer, fence, shared>>
    /\ UNCHANGED <<restVars, ringVars, apiVars, netVars, m_BufferCount, m_pSharedName, pResources, surf, bufferIndex, frames, cmdList,
                   queue, gpuExec, produced, consumed, toCount, everReady>>

\* PerformTransfer without the assertion on the counter's state
PerformTransfer_NoStateAssert(p, i, toSharedBuffer) ==
    IF ~(i < m_BufferCount)
    THEN /\ Terminate(p, "index")
         /\ UNCHANGED <<cmdList, queue, produced, toCount>>
    ELSE /\ cmdList' = [cmdList EXCEPT ![p] =
                RecordSurfaces(pResources, 0, 0, p_SharedBuffer[p][i][1], toSharedBuffer, @)]
         /\ queue' = [queue EXCEPT ![p] =
                Append(@, SignalEntry(p_SharedBuffer[p][i][2], IF toSharedBuffer THEN READY ELSE IDLE))]
         /\ produced' = IF toSharedBuffer THEN Append(produced, frames[p]) ELSE produced
         /\ toCount' = IF toSharedBuffer THEN [toCount EXCEPT ![i] = @ + 1] ELSE toCount
         /\ pc' = [pc EXCEPT ![p] = "recorded"]
         /\ UNCHANGED fault

\* TSROps::PerformTransfer on behalf of process p
PerformTransfer(p, i, toSharedBuffer) ==
    IF ~(i < m_BufferCount)
    THEN /\ Terminate(p, "index")
         /\ UNCHANGED <<cmdList, queue, produced, toCount>>
    ELSE LET pSharedResource == p_SharedBuffer[p][i][1]
             pSharedFence == p_SharedBuffer[p][i][2]
             desiredState == IF toSharedBuffer THEN IDLE ELSE READY
         IN IF fence[pSharedFence] # desiredState
            THEN /\ Terminate(p, "state")
                 /\ UNCHANGED <<cmdList, queue, produced, toCount>>
            ELSE /\ cmdList' = [cmdList EXCEPT ![p] =
                        RecordSurfaces(pResources, 0, 0, pSharedResource, toSharedBuffer, @)]
                 /\ queue' = [queue EXCEPT ![p] =
                        Append(@, SignalEntry(pSharedFence, IF toSharedBuffer THEN READY ELSE IDLE))]
                 /\ produced' = IF toSharedBuffer THEN Append(produced, frames[p]) ELSE produced
                 /\ toCount' = IF toSharedBuffer THEN [toCount EXCEPT ![i] = @ + 1] ELSE toCount
                 /\ pc' = [pc EXCEPT ![p] = "recorded"]
                 /\ UNCHANGED fault

(***************************************************************************)
(* TSRRenderModule and the main loop that drives it                        *)
(***************************************************************************)
\* the function given to SetReadyFunction
ReadyFunction(p) ==
    IF p = "R"
    THEN bufferStateMatches(p, bufferIndex[p], IDLE)
    ELSE bufferStateMatches(p, bufferIndex[p], READY)

\* the function given to SetCanExitFunction (renderer only)
CanExitFunction == bufferStateMatchesAll("R", IDLE)

\* one iteration of the outer loop whose readiness function returned true
Poll(p) ==
    /\ pc[p] = "poll"
    /\ frames[p] < MaxFrames
    /\ InFlight(p) < MaxInFlight
    /\ ReadyFunction(p)
    /\ pc' = [pc EXCEPT ![p] = "body"]
    /\ frames' = [frames EXCEPT ![p] = @ + 1]
    /\ cmdList' = [cmdList EXCEPT ![p] = IF p = "R" THEN <<RenderCmd(frames[p] + 1)>> ELSE <<>>]
    /\ UNCHANGED <<restVars, ringVars, apiVars, netVars, m_BufferCount, m_pSharedName, namedObjects, p_SharedBuffer, fence, shared,
                   pResources, surf, bufferIndex, fault, queue, gpuExec, produced, consumed,
                   toCount, everReady>>

\* OutboundDataTransfer (renderer) and InboundDataTransfer (upscaler)
Transfer(p) ==
    /\ pc[p] = "body"
    /\ PerformTransfer(p, bufferIndex[p], p = "R")
    /\ UNCHANGED <<restVars, ringVars, apiVars, netVars, m_BufferCount, m_pSharedName, namedObjects, p_SharedBuffer, fence, shared,
                   pResources, surf, bufferIndex, frames, gpuExec, consumed, everReady>>

\* the end of the frame: the command list is closed and submitted, the index advances
EndFrame(p) ==
    /\ pc[p] = "recorded"
    /\ queue' = [queue EXCEPT ![p] =
            Append(@, ListEntry(IF p = "U" THEN Append(cmdList[p], ConsumeCmd) ELSE cmdList[p]))]
    /\ cmdList' = [cmdList EXCEPT ![p] = <<>>]
    /\ bufferIndex' = [bufferIndex EXCEPT ![p] = (@ + 1) % m_BufferCount]
    /\ pc' = [pc EXCEPT ![p] = "poll"]
    /\ UNCHANGED <<restVars, ringVars, apiVars, netVars, m_BufferCount, m_pSharedName, namedObjects, p_SharedBuffer, fence, shared,
                   pResources, surf, frames, fault, gpuExec, produced, consumed, toCount, everReady>>

\* the renderer leaves its main loop once the can-exit function returns true
Exit ==
    /\ pc["R"] = "poll"
    /\ CanExitFunction
    /\ pc' = [pc EXCEPT !["R"] = "exited"]
    /\ UNCHANGED <<restVars, ringVars, apiVars, netVars, m_BufferCount, m_pSharedName, namedObjects, p_SharedBuffer, fence, shared,
                   pResources, surf, bufferIndex, frames, fault, cmdList, queue, gpuExec,
                   produced, consumed, toCount, everReady>>

(***************************************************************************)
(* The GPU: each process's queue executes its entries in submission order  *)
(***************************************************************************)
\* a queued ID3D12CommandQueue::Signal reaches the head of the queue
GpuSignal(p) ==
    /\ queue[p] # <<>>
    /\ gpuExec[p] = <<>>
    /\ Head(queue[p]).op = "signal"
    /\ LET e == Head(queue[p])
       IN /\ fence' = [fence EXCEPT ![e.fence] = e.value]
          /\ everReady' = IF e.value = READY THEN [everReady EXCEPT ![e.fence] = TRUE] ELSE everReady
    /\ queue' = [queue EXCEPT ![p] = Tail(@)]
    /\ UNCHANGED <<restVars, ringVars, apiVars, netVars, m_BufferCount, m_pSharedName, namedObjects, p_SharedBuffer, shared,
                   pResources, surf, bufferIndex, frames, pc, fault, cmdList, gpuExec,
                   produced, consumed, toCount>>

\* a submitted command list starts executing
GpuBegin(p) ==
    /\ queue[p] # <<>>
    /\ gpuExec[p] = <<>>
    /\ Head(queue[p]).op = "list"
    /\ gpuExec' = [gpuExec EXCEPT ![p] = Head(queue[p]).cmds]
    /\ queue' = [queue EXCEPT ![p] = Tail(@)]
    /\ UNCHANGED <<restVars, ringVars, apiVars, netVars, m_BufferCount, m_pSharedName, namedObjects, p_SharedBuffer, fence, shared,
                   pResources, surf, bufferIndex, frames, pc, fault, cmdList,
                   produced, consumed, toCount, everReady>>

\* the effect of one command on [shared, surf, consumed]
ExecCmd(c, st) ==
    CASE c.op = "render" -> [st EXCEPT !.surf = FrameContent(pResources, c.frame)]
      [] c.op = "consume" -> [st EXCEPT !.consumed = Append(@, st.surf)]
      [] c.op = "copy" /\ c.to ->
            [st EXCEPT !.shared[c.buf] =
                [x \in DOMAIN @ |->
                    IF x >= c.offset /\ x < c.offset + c.size
                    THEN st.surf[c.res][x - c.offset] ELSE @[x]]]
      [] c.op = "copy" /\ ~c.to ->
            [st EXCEPT !.surf[c.res] = [j \in 0 .. (c.size - 1) |-> st.shared[c.buf][c.offset + j]]]
      [] OTHER -> st

RECURSIVE ExecCmds(_, _, _)
ExecCmds(cmds, n, st) ==
    IF n <= Len(cmds) THEN ExecCmds(cmds, n + 1, ExecCmd(cmds[n], st)) ELSE st

\* the executing command list completes: its copies have moved the bytes
GpuEnd(p) ==
    /\ gpuExec[p] # <<>>
    /\ LET st == ExecCmds(gpuExec[p], 1, [shared |-> shared, surf |-> surf[p], consumed |-> consumed])
       IN /\ shared' = st.shared
          /\ surf' = [surf EXCEPT ![p] = st.surf]
          /\ consumed' = st.consumed
    /\ gpuExec' = [gpuExec EXCEPT ![p] = <<>>]
    /\ UNCHANGED <<restVars, ringVars, apiVars, netVars, m_BufferCount, m_pSharedName, namedObjects, p_SharedBuffer, fence,
                   pResources, bufferIndex, frames, pc, fault, cmdList, queue,
                   produced, toCount, everReady>>

(***************************************************************************)
(* BufferRing                                                              *)
(***************************************************************************)
\* the length of the ring in the FSR_REMOTE_GPU_ONLY build (the other build has 6)
DEFAULT_BUFLEN == 2

\* Streamer::Encode: while (tries < 3)
MaxTries == 3

\* a std::mutex nobody holds
Unlocked == "unlocked"

\* the threads, by name
Threads == {"t" \o to_wstring(n) : n \in 1 .. NumThreads}

\* an FSRData* is <<i>> for &mBuffers[i] and <<>> for nullptr
nullptr == <<>>
RingIdx == 0 .. (DEFAULT_BUFLEN - 1)
Sizes == 0 .. MaxBufferSize
\* the sizes the ring's callers ask for: the smallest and the largest
RingSizes == {0, MaxBufferSize}

\* a buffer never handed out
NoHandout == [ever |-> FALSE, out |-> FALSE, live |-> FALSE, again |-> "no"]

\* BufferRing::getBufferIndex: the first buffer whose pointer equals the given one
\* getBufferIndex that answers the first buffer for a pointer it does not find
getBufferIndex_NotFoundIsFirst(buffer) ==
    IF \E i \in RingIdx : <<i>> = buffer THEN CHOOSE i \in RingIdx : <<i>> = buffer ELSE 0

getBufferIndex(buffer) ==
    IF \E i \in RingIdx : <<i>> = buffer THEN CHOOSE i \in RingIdx : <<i>> = buffer ELSE -1

\* getNextEmptyBuffer without the check of the buffer's state
getNextEmptyBuffer_NoEmptyCheck(requestedSize) ==
    IF mBufferSize # requestedSize
    THEN [buffer |-> nullptr, mWriteIndex |-> mWriteIndex, mState |-> mState]
    ELSE LET index == mWriteIndex % DEFAULT_BUFLEN
         IN [buffer |-> <<index>>,
             mWriteIndex |-> (mWriteIndex + 1) % DEFAULT_BUFLEN,
             mState |-> [mState EXCEPT ![index] = "Allocated"]]

\* getNextEmptyBuffer without the comparison of the sizes
getNextEmptyBuffer_NoSizeCheck(requestedSize) ==
    LET index == mWriteIndex % DEFAULT_BUFLEN
    IN IF mState[index] = "Empty"
       THEN [buffer |-> <<index>>,
             mWriteIndex |-> (mWriteIndex + 1) % DEFAULT_BUFLEN,
             mState |-> [mState EXCEPT ![index] = "Allocated"]]
       ELSE [buffer |-> nullptr, mWriteIndex |-> mWriteIndex, mState |-> mState]

\* getNextEmptyBuffer without the increment of the write index
getNextEmptyBuffer_NoAdvance(requestedSize) ==
    IF mBufferSize # requestedSize
    THEN [buffer |-> nullptr, mWriteIndex |-> mWriteIndex, mState |-> mState]
    ELSE LET index == mWriteIndex % DEFAULT_BUFLEN
         IN IF mState[index] = "Empty"
            THEN [buffer |-> <<index>>,
                  mWriteIndex |-> mWriteIndex,
                  mState |-> [mState EXCEPT ![index] = "Allocated"]]
            ELSE [buffer |-> nullptr, mWriteIndex |-> mWriteIndex, mState |-> mState]

\* BufferRing::getNextEmptyBuffer: the returned buffer and the fields it leaves behind
getNextEmptyBuffer(requestedSize) ==
    IF mBufferSize # requestedSize
    THEN [buffer |-> nullptr, mWriteIndex |-> mWriteIndex, mState |-> mState]
    ELSE LET index == mWriteIndex % DEFAULT_BUFLEN
         IN IF mState[index] = "Empty"
            THEN [buffer |-> <<index>>,
                  mWriteIndex |-> (mWriteIndex + 1) % DEFAULT_BUFLEN,
                  mState |-> [mState EXCEPT ![index] = "Allocated"]]
            ELSE [buffer |-> nullptr, mWriteIndex |-> mWriteIndex, mState |-> mState]

\* getNextReadyBuffer without the increment of the read index
getNextReadyBuffer_NoAdvance ==
    LET index == mReadIndex % DEFAULT_BUFLEN
    IN IF mState[index] = "Ready"
       THEN [buffer |-> <<index>>, mReadIndex |-> mReadIndex]
       ELSE [buffer |-> nullptr, mReadIndex |-> mReadIndex]

\* getNextReadyBuffer without the check of the buffer's state
getNextReadyBuffer_NoReadyCheck ==
    LET index == mReadIndex % DEFAULT_BUFLEN
    IN [buffer |-> <<index>>, mReadIndex |-> (mReadIndex + 1) % DEFAULT_BUFLEN]

\* BufferRing::getNextReadyBuffer: the returned buffer and the read index it leaves behind
getNextReadyBuffer ==
    LET index == mReadIndex % DEFAULT_BUFLEN
    IN IF mState[index] = "Ready"
       THEN [buffer |-> <<index>>, mReadIndex |-> (mReadIndex + 1) % DEFAULT_BUFLEN]
       ELSE [buffer |-> nullptr, mReadIndex |-> mReadIndex]

\* BufferRing::markBufferReady: the states it leaves behind
markBufferReady(buffer) ==
    LET index == getBufferIndex(buffer)
    IN IF index # -1 THEN [mState EXCEPT ![index] = "Ready"] ELSE mState

\* BufferRing::releaseBuffer: the states it leaves behind
releaseBuffer(buffer) ==
    LET index == getBufferIndex(buffer)
    IN IF index # -1 THEN [mState EXCEPT ![index] = "Empty"] ELSE mState

\* storage fresh from new uint8_t[size]: size bytes of indeterminate value
NewStorage(size) == [size |-> size, data |-> "indeterminate"]

\* storage that holds the bytes of a transferred surface list
Payload(size) == [size |-> size, data |-> "payload"]

\* the body of BufferRing::reset: the fields it leaves behind
\* reset that empties the buffers and leaves the size the constructor set
reset_NoResize(size) ==
    [mBufferSize |-> 0,
     mState |-> [i \in RingIdx |-> "Empty"],
     mBuffers |-> [i \in RingIdx |-> NewStorage(0)]]

reset(size) ==
    [mBufferSize |-> size,
     mState |-> [i \in RingIdx |-> "Empty"],
     mBuffers |-> [i \in RingIdx |-> NewStorage(size)]]

\* a writer (HandleRenderer's Data case, OutboundDataTransfer) enters the write lock
WriterLock(t) ==
    /\ tpc[t] = "idle"
    /\ mWriteLock = Unlocked
    /\ mWriteLock' = t
    /\ \E size \in RingSizes : treq' = [treq EXCEPT ![t] = size]
    /\ tpc' = [tpc EXCEPT ![t] = "w_locked"]
    /\ UNCHANGED <<restVars, shmVars, apiVars, netVars, mState, mBuffers, mBufferSize, mReadIndex, mWriteIndex, mStateLock, mReadLock,
                   tbuf, handout>>

\* the writer calls getNextEmptyBuffer; without a buffer it leaves the write lock
WriterGet(t) ==
    /\ tpc[t] = "w_locked"
    /\ mStateLock = Unlocked
    /\ LET r == getNextEmptyBuffer(treq[t])
       IN /\ mWriteIndex' = r.mWriteIndex
          /\ mState' = r.mState
          /\ tbuf' = [tbuf EXCEPT ![t] = r.buffer]
          /\ IF r.buffer = nullptr
             THEN /\ tpc' = [tpc EXCEPT ![t] = "w_refused"]
                  /\ UNCHANGED handout
             ELSE /\ tpc' = [tpc EXCEPT ![t] = "w_have"]
                  /\ handout' = [handout EXCEPT ![r.buffer[1]] =
                        [ever |-> TRUE, out |-> TRUE, live |-> TRUE,
                         again |-> IF ~@.ever THEN "no" ELSE IF @.out THEN "reset" ELSE "released"]]
    /\ UNCHANGED <<restVars, shmVars, apiVars, netVars, mBuffers, mBufferSize, mReadIndex, mStateLock, mWriteLock,
                   mReadLock, treq>>

\* HandleRenderer without a buffer has sent NotReady; OutboundDataTransfer has skipped the
\* frame: the lock_guard leaves the write lock
WriterReturn(t) ==
    /\ tpc[t] \in {"w_refused", "o_skipped"}
    /\ mWriteLock' = Unlocked
    /\ tpc' = [tpc EXCEPT ![t] = "idle"]
    /\ treq' = [treq EXCEPT ![t] = 0]
    /\ UNCHANGED <<restVars, shmVars, apiVars, netVars, mState, mBuffers, mBufferSize, mReadIndex, mWriteIndex,
                   mStateLock, mReadLock, tbuf, handout>>

\* OutboundDataTransfer enters the write lock and computes the size of its resources
OutboundLock(t) ==
    /\ tpc[t] = "idle"
    /\ mWriteLock = Unlocked
    /\ mWriteLock' = t
    /\ \E size \in RingSizes : treq' = [treq EXCEPT ![t] = size]
    /\ tpc' = [tpc EXCEPT ![t] = "o_locked"]
    /\ UNCHANGED <<restVars, shmVars, apiVars, netVars, mState, mBuffers, mBufferSize, mReadIndex, mWriteIndex,
                   mStateLock, mReadLock, tbuf, handout>>

\* OutboundDataTransfer: size != getBufferSize(), the frame is skipped
OutboundSkip(t) ==
    /\ tpc[t] = "o_locked"
    /\ treq[t] # mBufferSize
    /\ tpc' = [tpc EXCEPT ![t] = "o_skipped"]
    /\ UNCHANGED <<restVars, shmVars, apiVars, netVars, mState, mBuffers, mBufferSize, mReadIndex, mWriteIndex,
                   mStateLock, mWriteLock, mReadLock, tbuf, treq, handout>>

\* OutboundDataTransfer: the sizes agree, getNextEmptyBuffer and the assertion on its result;
\* a thread whose assertion failed goes no further
OutboundGet(t) ==
    /\ tpc[t] = "o_locked"
    /\ treq[t] = mBufferSize
    /\ mStateLock = Unlocked
    /\ LET r == getNextEmptyBuffer(treq[t])
       IN /\ mWriteIndex' = r.mWriteIndex
          /\ mState' = r.mState
          /\ tbuf' = [tbuf EXCEPT ![t] = r.buffer]
          /\ IF r.buffer = nullptr
             THEN /\ tpc' = [tpc EXCEPT ![t] = "asserted"]
                  /\ UNCHANGED handout
             ELSE /\ tpc' = [tpc EXCEPT ![t] = "w_have"]
                  /\ handout' = [handout EXCEPT ![r.buffer[1]] =
                        [ever |-> TRUE, out |-> TRUE, live |-> TRUE,
                         again |-> IF ~@.ever THEN "no" ELSE IF @.out THEN "reset" ELSE "released"]]
    /\ UNCHANGED <<restVars, shmVars, apiVars, netVars, mBuffers, mBufferSize, mReadIndex, mStateLock, mWriteLock,
                   mReadLock, treq>>

\* the writer has filled the buffer: markBufferReady, then it leaves the write lock
WriterMark(t) ==
    /\ tpc[t] = "w_have"
    /\ mStateLock = Unlocked
    /\ mBuffers' = [mBuffers EXCEPT ![tbuf[t][1]] = Payload(treq[t])]
    /\ mState' = markBufferReady(tbuf[t])
    /\ tbuf' = [tbuf EXCEPT ![t] = nullptr]
    /\ mWriteLock' = Unlocked
    /\ tpc' = [tpc EXCEPT ![t] = "idle"]
    /\ treq' = [treq EXCEPT ![t] = 0]
    /\ UNCHANGED <<restVars, shmVars, apiVars, netVars, mBufferSize, mReadIndex, mWriteIndex, mStateLock, mReadLock,
                   handout>>

\* a reader (HandleRelay's Continue case, InboundDataTransfer) enters the read lock
ReaderLock(t) ==
    /\ tpc[t] = "idle"
    /\ mReadLock = Unlocked
    /\ mReadLock' = t
    /\ tpc' = [tpc EXCEPT ![t] = "r_locked"]
    /\ UNCHANGED <<restVars, shmVars, apiVars, netVars, mState, mBuffers, mBufferSize, mReadIndex, mWriteIndex, mStateLock, mWriteLock,
                   tbuf, treq, handout>>

\* the reader calls getNextReadyBuffer; without a buffer it leaves the read lock
ReaderGet(t) ==
    /\ tpc[t] = "r_locked"
    /\ mStateLock = Unlocked
    /\ LET r == getNextReadyBuffer
       IN /\ mReadIndex' = r.mReadIndex
          /\ tbuf' = [tbuf EXCEPT ![t] = r.buffer]
          /\ IF r.buffer = nullptr
             THEN /\ tpc' = [tpc EXCEPT ![t] = "idle"]
                  /\ mReadLock' = Unlocked
             ELSE /\ tpc' = [tpc EXCEPT ![t] = "r_have"]
                  /\ UNCHANGED mReadLock
    /\ UNCHANGED <<restVars, shmVars, apiVars, netVars, mState, mBuffers, mBufferSize, mWriteIndex, mStateLock, mWriteLock, treq, handout>>

\* InboundDataTransfer enters the read lock
InboundLock(t) ==
    /\ tpc[t] = "idle"
    /\ mReadLock = Unlocked
    /\ mReadLock' = t
    /\ tpc' = [tpc EXCEPT ![t] = "i_locked"]
    /\ UNCHANGED <<restVars, shmVars, apiVars, netVars, mState, mBuffers, mBufferSize, mReadIndex, mWriteIndex,
                   mStateLock, mWriteLock, tbuf, treq, handout>>

\* InboundDataTransfer: getNextReadyBuffer and the assertion on its result
InboundGet(t) ==
    /\ tpc[t] = "i_locked"
    /\ mStateLock = Unlocked
    /\ LET r == getNextReadyBuffer
       IN /\ mReadIndex' = r.mReadIndex
          /\ tbuf' = [tbuf EXCEPT ![t] = r.buffer]
          /\ tpc' = [tpc EXCEPT ![t] = IF r.buffer = nullptr THEN "asserted" ELSE "r_have"]
    /\ UNCHANGED <<restVars, shmVars, apiVars, netVars, mState, mBuffers, mBufferSize, mWriteIndex, mStateLock,
                   mWriteLock, mReadLock, treq, handout>>

\* the reader is done with the buffer: releaseBuffer, then it leaves the read lock
ReaderRelease(t) ==
    /\ tpc[t] = "r_have"
    /\ mStateLock = Unlocked
    /\ LET index == getBufferIndex(tbuf[t])
       IN /\ mState' = releaseBuffer(tbuf[t])
          /\ handout' = IF index # -1
                        THEN [handout EXCEPT ![index].out = FALSE, ![index].live = FALSE]
                        ELSE handout
    /\ tbuf' = [tbuf EXCEPT ![t] = nullptr]
    /\ mReadLock' = Unlocked
    /\ tpc' = [tpc EXCEPT ![t] = "idle"]
    /\ UNCHANGED <<restVars, shmVars, apiVars, netVars, mBuffers, mBufferSize, mReadIndex, mWriteIndex, mStateLock,
                   mWriteLock, treq>>

\* BufferRing::reset(size): the first lock_guard, on mStateLock
ResetLockState(t) ==
    /\ tpc[t] = "idle"
    /\ mStateLock = Unlocked
    /\ mStateLock' = t
    /\ \E size \in RingSizes : treq' = [treq EXCEPT ![t] = size]
    /\ tpc' = [tpc EXCEPT ![t] = "z_state"]
    /\ UNCHANGED <<restVars, shmVars, apiVars, netVars, mState, mBuffers, mBufferSize, mReadIndex, mWriteIndex, mWriteLock, mReadLock,
                   tbuf, handout>>

\* BufferRing::reset(size): the second lock_guard, on mWriteLock
ResetLockWrite(t) ==
    /\ tpc[t] = "z_state"
    /\ mWriteLock = Unlocked
    /\ mWriteLock' = t
    /\ tpc' = [tpc EXCEPT ![t] = "z_write"]
    /\ UNCHANGED <<restVars, shmVars, apiVars, netVars, mState, mBuffers, mBufferSize, mReadIndex, mWriteIndex, mStateLock, mReadLock,
                   tbuf, treq, handout>>

\* ResetLockRead that does not wait for the read lock
ResetLockRead_NoWait(t) ==
    /\ tpc[t] = "z_write"
    /\ tpc' = [tpc EXCEPT ![t] = "z_all"]
    /\ UNCHANGED <<restVars, shmVars, apiVars, netVars, mState, mBuffers, mBufferSize, mReadIndex, mWriteIndex,
                   mStateLock, mWriteLock, mReadLock, tbuf, treq, handout>>

\* BufferRing::reset(size): the third lock_guard, on mReadLock
ResetLockRead(t) ==
    /\ tpc[t] = "z_write"
    /\ mReadLock = Unlocked
    /\ mReadLock' = t
    /\ tpc' = [tpc EXCEPT ![t] = "z_all"]
    /\ UNCHANGED <<restVars, shmVars, apiVars, netVars, mState, mBuffers, mBufferSize, mReadIndex, mWriteIndex,
                   mStateLock, mWriteLock, tbuf, treq, handout>>

\* BufferRing::reset(size): the body, and the three lock_guards leave their locks
ResetBody(t) ==
    /\ tpc[t] = "z_all"
    /\ mReadLock' = IF mReadLock = t THEN Unlocked ELSE mReadLock
    /\ mBufferSize' = reset(treq[t]).mBufferSize
    /\ mState' = reset(treq[t]).mState
    /\ mBuffers' = reset(treq[t]).mBuffers
    /\ handout' = [i \in RingIdx |-> [handout[i] EXCEPT !.live = FALSE]]
    /\ mStateLock' = Unlocked
    /\ mWriteLock' = Unlocked
    /\ tpc' = [tpc EXCEPT ![t] = "idle"]
    /\ treq' = [treq EXCEPT ![t] = 0]
    /\ UNCHANGED <<restVars, shmVars, apiVars, netVars, mReadIndex, mWriteIndex, tbuf>>

\* no connection: nothing sent, no HandleRenderer, the other process's queue as constructed
NetUnused ==
    /\ toRenderer = <<>>
    /\ toRelay = <<>>
    /\ relay = [pc |-> "none", bufferSize |-> 0, buffer |-> nullptr, continues |-> 0]
    /\ relayQueue = [mState |-> [i \in RingIdx |-> "Empty"],
                     mBuffers |-> [i \in RingIdx |-> NewStorage(0)],
                     mBufferSize |-> 0,
                     mReadIndex |-> 0,
                     mWriteIndex |-> 0]
    /\ acked = -1

\* no FSRRemoteRenderModule
\* no call of Execute is under way and none has been made
NoExecute == [pc |-> "idle", targetQPC |-> 0, executes |-> 0, firstQpc |-> 0, worked |-> 0]

\* sharedView, sharedDataHandle and sharedDataArray[..] are null, and no call has been made on the OS
NoUdta == [sharedView |-> FALSE, sharedDataHandle |-> FALSE, sharedDataArray |-> FALSE,
           maps |-> 0, unmaps |-> 0, closes |-> 0, calls |-> 0, uncalls |-> 0, fault |-> "none"]

GateUnused ==
    /\ m_RelayMode = FALSE
    /\ m_Connected = FALSE

\* no Streamer: streaming is off
StreamerUnused ==
    /\ m_isPipeOpen = FALSE
    /\ m_frameIndex = 0
    /\ m_encodeMutex = Unlocked
    /\ m_bufferMutex = Unlocked
    /\ enc = [t \in Threads |-> [pc |-> "idle", idx |-> 0, tries |-> 0, attempts |-> 0]]
    /\ written = <<>>
    /\ copies = 0
    /\ gaveUp = FALSE
    /\ sfault = "none"
    /\ shutdown = "no"
    /\ encodes = 0
    /\ nextBackBuffer = 0

\* no frame limiter: the module is disabled
LimiterUnused ==
    /\ m_LimitFPS = FALSE
    /\ m_LimitGPU = FALSE
    /\ m_TargetFPS = 0
    /\ qpc = 0
    /\ lastFrame = 0
    /\ lim = NoExecute
    /\ m_Overhead = 0
    /\ m_FrameTimeHistory = [i \in 0 .. (FrameTimeHistoryLen - 1) |-> 0]
    /\ m_FrameTimeHistorySum = 0
    /\ m_FrameTimeHistoryCount = 0

\* no teardown and no user data: nothing was released, mapped or unmapped
TeardownUnused ==
    /\ released = [p \in Procs |-> EmptyFn]
    /\ teardowns = [p \in Procs |-> [runs |-> 0, in |-> FALSE, i |-> 0]]
    /\ udta = NoUdta

\* no order of hand-outs is kept
FifoUnused == fifo = [given |-> <<>>, taken |-> <<>>, aligned |-> TRUE]

\* no payload transfer is looked at
CastUnused == xfer = [pc |-> "none", by |-> "none", bufferSize |-> 0, len |-> 0]

\* none of the parts after the teardown is in use
Rest5Unused == FifoUnused /\ CastUnused

\* none of the parts after the frame limiter is in use
Rest4Unused == TeardownUnused /\ Rest5Unused

\* none of the parts after the streamer is in use
Rest3Unused == LimiterUnused /\ Rest4Unused

\* none of the added parts is in use
RestUnused == GateUnused /\ StreamerUnused /\ Rest3Unused

\* the ring as BufferRing::BufferRing leaves it: reset(0) has run, the indices hold whatever
\* the memory held
RingInit ==
    /\ mState = reset(0).mState
    /\ mBuffers = reset(0).mBuffers
    /\ mBufferSize = reset(0).mBufferSize
    /\ apiLog = <<>>
    /\ run = [valid |-> TRUE, results |-> <<>>]
    /\ NetUnused
    /\ mReadIndex \in RingIdx
    /\ mWriteIndex \in RingIdx
    /\ mStateLock = Unlocked /\ mWriteLock = Unlocked /\ mReadLock = Unlocked
    /\ tpc = [t \in Threads |-> "idle"]
    /\ tbuf = [t \in Threads |-> nullptr]
    /\ treq = [t \in Threads |-> 0]
    /\ handout = [i \in RingIdx |-> NoHandout]

\* the ring of a process that has no connection thread and does not resize
RingUnused ==
    /\ mState = reset(0).mState
    /\ mBuffers = reset(0).mBuffers
    /\ mBufferSize = reset(0).mBufferSize
    /\ apiLog = <<>>
    /\ run = [valid |-> TRUE, results |-> <<>>]
    /\ NetUnused
    /\ mReadIndex = 0
    /\ mWriteIndex = 0
    /\ mStateLock = Unlocked /\ mWriteLock = Unlocked /\ mReadLock = Unlocked
    /\ tpc = [t \in Threads |-> "idle"]
    /\ tbuf = [t \in Threads |-> nullptr]
    /\ treq = [t \in Threads |-> 0]
    /\ handout = [i \in RingIdx |-> NoHandout]

(***************************************************************************)
(* The two processes on the shared-memory ring                             *)
(***************************************************************************)
ShmInit(n, res) ==
    /\ m_BufferCount = n
    /\ m_pSharedName = [p \in Procs |-> "FSR"]
    /\ namedObjects = EmptyFn
    /\ p_SharedBuffer = [p \in Procs |-> EmptyFn]
    /\ fence = EmptyFn
    /\ shared = EmptyFn
    /\ pResources = res
    /\ surf = [p \in Procs |-> FrameContent(res, 0)]
    /\ bufferIndex = [p \in Procs |-> 0]
    /\ frames = [p \in Procs |-> 0]
    /\ pc = [p \in Procs |-> "init"]
    /\ fault = [p \in Procs |-> "none"]
    /\ cmdList = [p \in Procs |-> <<>>]
    /\ queue = [p \in Procs |-> <<>>]
    /\ gpuExec = [p \in Procs |-> <<>>]
    /\ produced = <<>>
    /\ consumed = <<>>
    /\ toCount = [i \in 0 .. (n - 1) |-> 0]
    /\ everReady = [i \in 0 .. (n - 1) |-> FALSE]

Init == RingUnused /\ RestUnused /\ \E n \in 1 .. MaxBufferCount : ShmInit(n, UnitResources)

Next ==
    \/ \E p \in Procs : CreateSharedBuffers(p)
    \/ \E p \in Procs : Poll(p)
    \/ \E p \in Procs : Transfer(p)
    \/ \E p \in Procs : EndFrame(p)
    \/ Exit
    \/ \E p \in Procs : GpuSignal(p)
    \/ \E p \in Procs : GpuBegin(p)
    \/ \E p \in Procs : GpuEnd(p)

Spec == Init /\ [][Next]_vars

(***************************************************************************)
(* The same two TSROps driven by callers that do not consult the readiness *)
(* function, pass any buffer index, and let their queue drain between two  *)
(* frames                                                                  *)
(***************************************************************************)
ApiEnter(p) ==
    /\ pc[p] = "poll"
    /\ frames[p] < MaxFrames
    /\ queue[p] = <<>> /\ gpuExec[p] = <<>>
    /\ \E i \in 0 .. m_BufferCount : bufferIndex' = [bufferIndex EXCEPT ![p] = i]
    /\ pc' = [pc EXCEPT ![p] = "body"]
    /\ frames' = [frames EXCEPT ![p] = @ + 1]
    /\ cmdList' = [cmdList EXCEPT ![p] = IF p = "R" THEN <<RenderCmd(frames[p] + 1)>> ELSE <<>>]
    /\ UNCHANGED <<restVars, ringVars, apiVars, netVars, m_BufferCount, m_pSharedName, namedObjects, p_SharedBuffer, fence, shared,
                   pResources, surf, fault, queue, gpuExec, produced, consumed,
                   toCount, everReady>>

NextApi ==
    \/ \E p \in Procs : CreateSharedBuffers(p)
    \/ \E p \in Procs : ApiEnter(p)
    \/ \E p \in Procs : Transfer(p)
    \/ \E p \in Procs : EndFrame(p)
    \/ \E p \in Procs : GpuSignal(p)
    \/ \E p \in Procs : GpuBegin(p)
    \/ \E p \in Procs : GpuEnd(p)

SpecApi == Init /\ [][NextApi]_vars

(***************************************************************************)
(* Round trips: one TransferToSharedBuffer, then one TransferFromSharedBuffer, *)
(* each call's command list executed by its queue before the next call     *)
(***************************************************************************)
\* the extents a surface is drawn from: the smallest and the largest of each
SurfaceDescs ==
    {[Width |-> w, Height |-> h, stride |-> s] : w \in {1, MaxDim}, h \in {1, MaxDim}, s \in {1, MaxDim}}

SurfaceLists == [ResIdx -> SurfaceDescs]

\* no queue holds an entry and no command list is executing
Drained == \A p \in Procs : queue[p] = <<>> /\ gpuExec[p] = <<>>

\* the caller of the next transfer: the renderer, then the upscaler, on any slot
RoundTripEnter(p) ==
    /\ pc["R"] = "poll" /\ pc["U"] = "poll"
    /\ Drained
    /\ IF p = "R" THEN frames["R"] = frames["U"] /\ frames["R"] < MaxRoundTrips
       ELSE frames["U"] < frames["R"]
    /\ \E i \in Slots : bufferIndex' = [bufferIndex EXCEPT ![p] = i]
    /\ pc' = [pc EXCEPT ![p] = "body"]
    /\ frames' = [frames EXCEPT ![p] = @ + 1]
    /\ cmdList' = [cmdList EXCEPT ![p] = IF p = "R" THEN <<RenderCmd(frames[p] + 1)>> ELSE <<>>]
    /\ UNCHANGED <<restVars, ringVars, apiVars, netVars, m_BufferCount, m_pSharedName, namedObjects, p_SharedBuffer, fence, shared,
                   pResources, surf, fault, queue, gpuExec, produced, consumed,
                   toCount, everReady>>

InitTransfer == RingUnused /\ RestUnused /\ \E n \in 1 .. MaxBufferCount : \E res \in SurfaceLists : ShmInit(n, res)

NextTransfer ==
    \/ \E p \in Procs : CreateSharedBuffers(p)
    \/ \E p \in Procs : RoundTripEnter(p)
    \/ \E p \in Procs : Transfer(p)
    \/ \E p \in Procs : EndFrame(p)
    \/ \E p \in Procs : GpuSignal(p)
    \/ \E p \in Procs : GpuBegin(p)
    \/ \E p \in Procs : GpuEnd(p)

SpecTransfer == InitTransfer /\ [][NextTransfer]_vars

(***************************************************************************)
(* The threads of one process on its network buffer ring                   *)
(***************************************************************************)
InitRing == RingInit /\ RestUnused /\ ShmInit(1, UnitResources)

NextRing ==
    \/ \E t \in Threads : WriterLock(t)
    \/ \E t \in Threads : WriterGet(t)
    \/ \E t \in Threads : WriterMark(t)
    \/ \E t \in Threads : ReaderLock(t)
    \/ \E t \in Threads : ReaderGet(t)
    \/ \E t \in Threads : ReaderRelease(t)
    \/ \E t \in Threads : ResetLockState(t)
    \/ \E t \in Threads : ResetLockWrite(t)
    \/ \E t \in Threads : ResetLockRead(t)
    \/ \E t \in Threads : WriterReturn(t)
    \/ \E t \in Threads : OutboundLock(t)
    \/ \E t \in Threads : OutboundSkip(t)
    \/ \E t \in Threads : OutboundGet(t)
    \/ \E t \in Threads : InboundLock(t)
    \/ \E t \in Threads : InboundGet(t)
    \/ \E t \in Threads : ResetBody(t)

SpecRing == InitRing /\ [][NextRing]_vars

(***************************************************************************)
(* Callers of BufferRing's public interface: any method, any argument, one *)
(* call at a time                                                          *)
(***************************************************************************)
\* run.valid: the ring was all Empty (constructed, reset, or emptied by a release) and since
\* then nothing was released and only buffers handed out since then were marked Ready;
\* run.results: what the getNextEmptyBuffer calls for the ring's size have returned since
\* the pointers a caller may pass: one per buffer of the ring, and one to an FSRData that
\* is not in the ring
Pointers == {<<i>> : i \in RingIdx} \cup {<<DEFAULT_BUFLEN>>}

\* the last MaxLog calls, the newest last
Logged(call) ==
    LET all == Append(apiLog, call)
    IN IF Len(all) > MaxLog THEN SubSeq(all, Len(all) - MaxLog + 1, Len(all)) ELSE all

Call(op, size, buffer, ret) ==
    [op |-> op, size |-> size, buffer |-> buffer, ret |-> ret, pre |-> mState]

AllEmpty(states) == \A i \in RingIdx : states[i] = "Empty"

NoLocks == mStateLock = Unlocked /\ mWriteLock = Unlocked /\ mReadLock = Unlocked

ApiGetNextEmptyBuffer ==
    /\ NoLocks
    /\ \E requestedSize \in RingSizes :
          LET r == getNextEmptyBuffer(requestedSize)
          IN /\ mWriteIndex' = r.mWriteIndex
             /\ mState' = r.mState
             /\ apiLog' = Logged(Call("getNextEmptyBuffer", requestedSize, nullptr, r.buffer))
             /\ run' = IF requestedSize = mBufferSize /\ run.valid
                          /\ Len(run.results) <= DEFAULT_BUFLEN
                       THEN [run EXCEPT !.results = Append(@, r.buffer)]
                       ELSE run
    /\ UNCHANGED <<restVars, shmVars, netVars, mBuffers, mBufferSize, mReadIndex, mStateLock, mWriteLock, mReadLock,
                   tpc, tbuf, treq, handout>>

ApiGetNextReadyBuffer ==
    /\ NoLocks
    /\ LET r == getNextReadyBuffer
       IN /\ mReadIndex' = r.mReadIndex
          /\ apiLog' = Logged(Call("getNextReadyBuffer", 0, nullptr, r.buffer))
    /\ UNCHANGED <<restVars, shmVars, netVars, mState, mBuffers, mBufferSize, mWriteIndex, mStateLock, mWriteLock,
                   mReadLock, tpc, tbuf, treq, handout, run>>

ApiMarkBufferReady ==
    /\ NoLocks
    /\ \E buffer \in Pointers :
          /\ mState' = markBufferReady(buffer)
          /\ apiLog' = Logged(Call("markBufferReady", 0, buffer, nullptr))
          /\ run' = IF markBufferReady(buffer) = mState
                       \/ \E k \in 1 .. Len(run.results) : run.results[k] = buffer
                    THEN run
                    ELSE [valid |-> AllEmpty(markBufferReady(buffer)), results |-> <<>>]
    /\ UNCHANGED <<restVars, shmVars, netVars, mBuffers, mBufferSize, mReadIndex, mWriteIndex, mStateLock, mWriteLock,
                   mReadLock, tpc, tbuf, treq, handout>>

ApiReleaseBuffer ==
    /\ NoLocks
    /\ \E buffer \in Pointers :
          /\ mState' = releaseBuffer(buffer)
          /\ apiLog' = Logged(Call("releaseBuffer", 0, buffer, nullptr))
          /\ run' = IF releaseBuffer(buffer) = mState THEN run
                    ELSE [valid |-> AllEmpty(releaseBuffer(buffer)), results |-> <<>>]
    /\ UNCHANGED <<restVars, shmVars, netVars, mBuffers, mBufferSize, mReadIndex, mWriteIndex, mStateLock, mWriteLock,
                   mReadLock, tpc, tbuf, treq, handout>>

ApiReset ==
    /\ NoLocks
    /\ \E size \in RingSizes :
          /\ mBufferSize' = reset(size).mBufferSize
          /\ mState' = reset(size).mState
          /\ mBuffers' = reset(size).mBuffers
          /\ apiLog' = Logged(Call("reset", size, nullptr, nullptr))
    /\ run' = [valid |-> TRUE, results |-> <<>>]
    /\ UNCHANGED <<restVars, shmVars, netVars, mReadIndex, mWriteIndex, mStateLock, mWriteLock, mReadLock,
                   tpc, tbuf, treq, handout>>

NextRingApi ==
    \/ ApiGetNextEmptyBuffer
    \/ ApiGetNextReadyBuffer
    \/ ApiMarkBufferReady
    \/ ApiReleaseBuffer
    \/ ApiReset

SpecRingApi == InitRing /\ [][NextRingApi]_vars

(***************************************************************************)
(* The relay connection: HandleRelay in the renderer process, HandleRenderer *)
(* in the relay process, one TCP stream in each direction                  *)
(***************************************************************************)
MessageType == {"Reconfigure", "Continue", "Proceed", "Ack", "NotReady", "Data", "Error", "Invalid"}

\* what a stream carries: a MessageType, a number (size_t or uint32_t), a unit of payload
Message(type) == [t |-> type, n |-> 0]
Number(n) == [t |-> "number", n |-> n]
Bytes(size) == [k \in 1 .. size |-> [t |-> "byte", n |-> 0]]

\* recv into a MessageType: the type that was sent, or whatever the bytes of something else
\* read as
TypesRead(unit) == IF unit.t \in MessageType THEN {unit.t} ELSE MessageType

\* recv into a size_t: the number that was sent, or whatever the bytes of something else
\* read as
SizesRead(unit) == IF unit.t = "number" THEN {unit.n} ELSE Sizes

\* send blocks while the stream has no room for the units
Room(stream, units) == Len(stream) + units <= MaxStream

Min(a, b) == IF a < b THEN a ELSE b

\* the threads of the renderer process: the main loop, and HandleRelay for the connection
MainThread == "t1"
RelayThread == "t2"

\* a BufferRing as reset(size) leaves it, with the indices at r and w
QueueOf(size, r, w) ==
    [mState |-> [i \in RingIdx |-> "Empty"],
     mBuffers |-> [i \in RingIdx |-> NewStorage(size)],
     mBufferSize |-> size,
     mReadIndex |-> r,
     mWriteIndex |-> w]

\* BufferRing's methods on the queue q of the other process: the result and the queue they
\* leave behind
getNextEmptyBufferIn(q, requestedSize) ==
    IF q.mBufferSize # requestedSize
    THEN [buffer |-> nullptr, q |-> q]
    ELSE LET index == q.mWriteIndex % DEFAULT_BUFLEN
         IN IF q.mState[index] = "Empty"
            THEN [buffer |-> <<index>>,
                  q |-> [q EXCEPT !.mWriteIndex = (@ + 1) % DEFAULT_BUFLEN,
                                  !.mState[index] = "Allocated"]]
            ELSE [buffer |-> nullptr, q |-> q]

getNextReadyBufferIn(q) ==
    LET index == q.mReadIndex % DEFAULT_BUFLEN
    IN IF q.mState[index] = "Ready"
       THEN [buffer |-> <<index>>, q |-> [q EXCEPT !.mReadIndex = (@ + 1) % DEFAULT_BUFLEN]]
       ELSE [buffer |-> nullptr, q |-> q]

markBufferReadyIn(q, buffer) ==
    LET index == getBufferIndex(buffer)
    IN IF index # -1 THEN [q EXCEPT !.mState[index] = "Ready"] ELSE q

releaseBufferIn(q, buffer) ==
    LET index == getBufferIndex(buffer)
    IN IF index # -1 THEN [q EXCEPT !.mState[index] = "Empty"] ELSE q

nextBufferReadyIn(q) == q.mState[q.mReadIndex % DEFAULT_BUFLEN] = "Ready"

\* BufferRing::nextBufferEmpty on the queue of this process
nextBufferEmpty == mState[mWriteIndex % DEFAULT_BUFLEN] = "Empty"

\* storage a single recv has filled in part, or with bytes that are no payload
PartialPayload(size) == [size |-> size, data |-> "partial"]

\* what recv has left in the buffer: it took the units got out of the stream
Received(size, got) ==
    IF Len(got) = size /\ \A k \in 1 .. Len(got) : got[k].t = "byte"
    THEN Payload(size)
    ELSE PartialPayload(size)

\* HandleRenderer at the top of its loop, the Continue messages it has just sent counted in
AtRest(sent) ==
    [pc |-> "recv_type", bufferSize |-> 0, buffer |-> nullptr,
     continues |-> relay.continues + sent]

\* HandleRenderer opens the exchange: Reconfigure, width, height. A resolution is written
\* as the total size of the resources at that resolution
RelayStart ==
    /\ relay.pc = "start"
    /\ Room(toRenderer, 3)
    /\ \E resolution \in Sizes :
          toRenderer' = toRenderer \o <<Message("Reconfigure"), Number(resolution),
                                        Number(resolution)>>
    /\ relay' = AtRest(0)
    /\ UNCHANGED <<restVars, shmVars, ringVars, apiVars, toRelay, relayQueue, acked>>

\* HandleRenderer receives a type; on Data it goes on to the size inside the write lock,
\* on anything else it has nothing to do and sends Continue
RelayRecvType ==
    /\ relay.pc = "recv_type"
    /\ toRelay # <<>>
    /\ toRelay' = Tail(toRelay)
    /\ \E type \in TypesRead(Head(toRelay)) :
          IF type = "Data"
          THEN /\ relay' = [relay EXCEPT !.pc = "recv_size"]
               /\ UNCHANGED toRenderer
          ELSE /\ Room(toRenderer, 1)
               /\ relay.continues < MaxRequests
               /\ toRenderer' = Append(toRenderer, Message("Continue"))
               /\ relay' = AtRest(1)
    /\ UNCHANGED <<restVars, shmVars, ringVars, apiVars, relayQueue, acked>>

\* RelayRecvSize that sends Proceed whether or not it got a buffer
RelayRecvSize_AlwaysProceed ==
    /\ relay.pc = "recv_size"
    /\ toRelay # <<>>
    /\ toRelay' = Tail(toRelay)
    /\ \E bufferSize \in SizesRead(Head(toRelay)) :
          LET r == getNextEmptyBufferIn(relayQueue, bufferSize)
          IN /\ Room(toRenderer, 1)
             /\ toRenderer' = Append(toRenderer, Message("Proceed"))
             /\ relayQueue' = r.q
             /\ relay' = [relay EXCEPT !.pc = "recv_payload", !.bufferSize = bufferSize,
                                       !.buffer = r.buffer]
    /\ UNCHANGED <<restVars, shmVars, ringVars, apiVars, acked>>

\* HandleRenderer receives the size and asks its queue for a buffer: without one it sends
\* NotReady and then Continue, with one it sends Proceed
RelayRecvSize ==
    /\ relay.pc = "recv_size"
    /\ toRelay # <<>>
    /\ toRelay' = Tail(toRelay)
    /\ \E bufferSize \in SizesRead(Head(toRelay)) :
          LET r == getNextEmptyBufferIn(relayQueue, bufferSize)
          IN IF r.buffer = nullptr
             THEN /\ Room(toRenderer, 2)
                  /\ relay.continues < MaxRequests
                  /\ toRenderer' = toRenderer \o <<Message("NotReady"), Message("Continue")>>
                  /\ relay' = AtRest(1)
                  /\ UNCHANGED relayQueue
             ELSE /\ Room(toRenderer, 1)
                  /\ toRenderer' = Append(toRenderer, Message("Proceed"))
                  /\ relayQueue' = r.q
                  /\ relay' = [relay EXCEPT !.pc = "recv_payload", !.bufferSize = bufferSize,
                                            !.buffer = r.buffer]
    /\ UNCHANGED <<restVars, shmVars, ringVars, apiVars, acked>>

\* HandleRenderer receives into the buffer with one recv, which takes what has arrived, at
\* most bufferSize; then it marks the buffer Ready, leaves the write lock and sends Continue
RelayRecvPayload ==
    /\ relay.pc = "recv_payload"
    /\ Room(toRenderer, 1)
    /\ relay.continues < MaxRequests
    /\ \E count \in 0 .. Min(relay.bufferSize, Len(toRelay)) :
          /\ count = 0 <=> relay.bufferSize = 0
          /\ toRelay' = SubSeq(toRelay, count + 1, Len(toRelay))
          /\ relayQueue' = markBufferReadyIn(
                 [relayQueue EXCEPT !.mBuffers[relay.buffer[1]] =
                      Received(relay.bufferSize, SubSeq(toRelay, 1, count))],
                 relay.buffer)
    /\ toRenderer' = Append(toRenderer, Message("Continue"))
    /\ relay' = AtRest(1)
    /\ UNCHANGED <<restVars, shmVars, ringVars, apiVars, acked>>

\* the relay's main loop, let in by nextBufferReady: InboundDataTransfer takes the Ready
\* buffer, copies it to the GPU and releases it
RelayInbound ==
    /\ relay.pc # "none"
    /\ nextBufferReadyIn(relayQueue)
    /\ LET r == getNextReadyBufferIn(relayQueue)
       IN relayQueue' = releaseBufferIn(r.q, r.buffer)
    /\ UNCHANGED <<restVars, shmVars, ringVars, apiVars, toRenderer, toRelay, relay, acked>>

\* HandleRelay receives a type at the top of its loop: Reconfigure with width and height is
\* acknowledged, Continue leads to the read lock, anything else is only warned about
HandleRelayRecv ==
    /\ tpc[RelayThread] = "idle"
    /\ toRenderer # <<>>
    /\ \E type \in TypesRead(Head(toRenderer)) :
          CASE type = "Reconfigure" ->
                  /\ Len(toRenderer) >= 3
                  /\ Room(toRelay, 1)
                  /\ toRenderer' = SubSeq(toRenderer, 4, Len(toRenderer))
                  /\ toRelay' = Append(toRelay, Message("Ack"))
                  /\ \E width \in SizesRead(toRenderer[2]) : acked' = width
                  /\ UNCHANGED tpc
            [] type = "Continue" ->
                  /\ toRenderer' = Tail(toRenderer)
                  /\ tpc' = [tpc EXCEPT ![RelayThread] = "h_continue"]
                  /\ UNCHANGED <<toRelay, acked>>
            [] OTHER ->
                  /\ toRenderer' = Tail(toRenderer)
                  /\ UNCHANGED <<toRelay, acked, tpc>>
    /\ UNCHANGED <<restVars, shmVars, apiVars, mState, mBuffers, mBufferSize, mReadIndex, mWriteIndex,
                   mStateLock, mWriteLock, mReadLock, tbuf, treq, handout, relay, relayQueue>>

\* HandleRelay, Continue: the lock_guard on the read lock
HandleRelayLock ==
    /\ tpc[RelayThread] = "h_continue"
    /\ mReadLock = Unlocked
    /\ mReadLock' = RelayThread
    /\ tpc' = [tpc EXCEPT ![RelayThread] = "r_locked"]
    /\ UNCHANGED <<restVars, shmVars, apiVars, netVars, mState, mBuffers, mBufferSize, mReadIndex,
                   mWriteIndex, mStateLock, mWriteLock, tbuf, treq, handout>>

\* HandleRelay, Continue: getNextReadyBuffer; without a buffer NotReady is sent and the read
\* lock left, with one Data and the size of the buffers are sent
HandleRelayGet ==
    /\ tpc[RelayThread] = "r_locked"
    /\ mStateLock = Unlocked
    /\ LET r == getNextReadyBuffer
       IN /\ mReadIndex' = r.mReadIndex
          /\ IF r.buffer = nullptr
             THEN /\ Room(toRelay, 1)
                  /\ toRelay' = Append(toRelay, Message("NotReady"))
                  /\ mReadLock' = Unlocked
                  /\ tpc' = [tpc EXCEPT ![RelayThread] = "idle"]
                  /\ UNCHANGED <<tbuf, treq>>
             ELSE /\ Room(toRelay, 2)
                  /\ toRelay' = toRelay \o <<Message("Data"), Number(mBufferSize)>>
                  /\ tbuf' = [tbuf EXCEPT ![RelayThread] = r.buffer]
                  /\ treq' = [treq EXCEPT ![RelayThread] = mBufferSize]
                  /\ tpc' = [tpc EXCEPT ![RelayThread] = "h_data"]
                  /\ UNCHANGED mReadLock
    /\ UNCHANGED <<restVars, shmVars, apiVars, mState, mBuffers, mBufferSize, mWriteIndex, mStateLock,
                   mWriteLock, handout, toRenderer, relay, relayQueue, acked>>

\* HandleRelay, Continue: the answer to Data; on Proceed the buffer is sent; on Proceed and
\* on anything else the buffer is released and the read lock left
HandleRelayReply ==
    /\ tpc[RelayThread] = "h_data"
    /\ toRenderer # <<>>
    /\ mStateLock = Unlocked
    /\ toRenderer' = Tail(toRenderer)
    /\ \E type \in TypesRead(Head(toRenderer)) :
          IF type = "Proceed"
          THEN /\ Room(toRelay, treq[RelayThread])
               /\ toRelay' = toRelay \o Bytes(treq[RelayThread])
          ELSE UNCHANGED toRelay
    /\ mState' = releaseBuffer(tbuf[RelayThread])
    /\ handout' = [handout EXCEPT ![tbuf[RelayThread][1]].out = FALSE,
                                  ![tbuf[RelayThread][1]].live = FALSE]
    /\ tbuf' = [tbuf EXCEPT ![RelayThread] = nullptr]
    /\ treq' = [treq EXCEPT ![RelayThread] = 0]
    /\ mReadLock' = Unlocked
    /\ tpc' = [tpc EXCEPT ![RelayThread] = "idle"]
    /\ UNCHANGED <<restVars, shmVars, apiVars, mBuffers, mBufferSize, mReadIndex, mWriteIndex, mStateLock,
                   mWriteLock, relay, relayQueue, acked>>

\* the renderer's main loop, let in by nextBufferEmpty: OutboundDataTransfer from the write
\* lock to markBufferReady, for resources of the queue's size (for another size it returns
\* and nothing has changed)
RendererOutbound ==
    /\ tpc[MainThread] = "idle"
    /\ nextBufferEmpty
    /\ mWriteLock = Unlocked
    /\ mStateLock = Unlocked
    /\ LET r == getNextEmptyBuffer(mBufferSize)
       IN /\ mWriteIndex' = r.mWriteIndex
          /\ mBuffers' = [mBuffers EXCEPT ![r.buffer[1]] = Payload(mBufferSize)]
          /\ mState' = [r.mState EXCEPT ![r.buffer[1]] = "Ready"]
    /\ UNCHANGED <<restVars, shmVars, apiVars, netVars, mBufferSize, mReadIndex, mStateLock, mWriteLock,
                   mReadLock, tpc, tbuf, treq, handout>>

\* the renderer's main loop: OnResize resets the queue to the size of the resized resources
RendererResize ==
    /\ tpc[MainThread] = "idle"
    /\ mStateLock = Unlocked
    /\ mWriteLock = Unlocked
    /\ mReadLock = Unlocked
    /\ \E size \in Sizes \ {mBufferSize} :
          /\ mBufferSize' = reset(size).mBufferSize
          /\ mState' = reset(size).mState
          /\ mBuffers' = reset(size).mBuffers
    /\ UNCHANGED <<restVars, shmVars, apiVars, netVars, mReadIndex, mWriteIndex, mStateLock, mWriteLock,
                   mReadLock, tpc, tbuf, treq, handout>>

\* both processes after FSRRemoteRenderModule::Init: each queue reset to the size of the
\* process's own resources, the connection accepted, nothing sent yet
\* The indices hold whatever the memory held; a ring looks the same when its buffers are
\* renumbered in a circle, so only the distance from the read index to the write index is
\* drawn
InitRelay ==
    /\ \E size \in Sizes :
          /\ mState = reset(size).mState
          /\ mBuffers = reset(size).mBuffers
          /\ mBufferSize = reset(size).mBufferSize
    /\ apiLog = <<>>
    /\ run = [valid |-> TRUE, results |-> <<>>]
    /\ mReadIndex = 0
    /\ mWriteIndex \in RingIdx
    /\ mStateLock = Unlocked /\ mWriteLock = Unlocked /\ mReadLock = Unlocked
    /\ tpc = [t \in Threads |-> "idle"]
    /\ tbuf = [t \in Threads |-> nullptr]
    /\ treq = [t \in Threads |-> 0]
    /\ handout = [i \in RingIdx |-> NoHandout]
    /\ toRenderer = <<>>
    /\ toRelay = <<>>
    /\ relay = [pc |-> "start", bufferSize |-> 0, buffer |-> nullptr, continues |-> 0]
    /\ \E size \in Sizes, w \in RingIdx : relayQueue = QueueOf(size, 0, w)
    /\ acked = -1
    /\ RestUnused
    /\ ShmInit(1, UnitResources)

NextRelay ==
    \/ RelayStart
    \/ RelayRecvType
    \/ RelayRecvSize
    \/ RelayRecvPayload
    \/ RelayInbound
    \/ HandleRelayRecv
    \/ HandleRelayLock
    \/ HandleRelayGet
    \/ HandleRelayReply
    \/ RendererOutbound
    \/ RendererResize

SpecRelay == InitRelay /\ [][NextRelay]_vars

(***************************************************************************)
(* One FSRRemoteRenderModule: its main loop behind the readiness function, *)
(* OnResize, and the connection threads, all on the module's own queue     *)
(***************************************************************************)
\* the threads Connection starts: HandleRelay per client in the renderer process,
\* HandleRenderer in the relay process
Workers == Threads \ {MainThread}

\* BufferRing::nextBufferReady on the queue of this process
nextBufferReady == mState[mReadIndex % DEFAULT_BUFLEN] = "Ready"

\* a readiness function that lets every iteration in
ReadyFunctionRemote_AlwaysReady == TRUE

\* the function FSRRemoteRenderModule::Init hands to SetReadyFunction
ReadyFunctionRemote ==
    IF m_RelayMode THEN nextBufferReady \/ ~m_Connected ELSE nextBufferEmpty

\* the main loop consults the readiness function (which takes the state lock); when it
\* answers false the iteration is skipped and nothing has changed
GatePoll ==
    /\ tpc[MainThread] = "idle"
    /\ mStateLock = Unlocked
    /\ ReadyFunctionRemote
    /\ tpc' = [tpc EXCEPT ![MainThread] = "frame"]
    /\ UNCHANGED <<shmVars, apiVars, netVars, restVars, mState, mBuffers, mBufferSize, mReadIndex,
                   mWriteIndex, mStateLock, mWriteLock, mReadLock, tbuf, treq, handout>>

\* relay mode, Execute: InboundDataTransfer returns at once while not connected
GateInboundReturn ==
    /\ tpc[MainThread] = "frame"
    /\ m_RelayMode
    /\ ~m_Connected
    /\ tpc' = [tpc EXCEPT ![MainThread] = "idle"]
    /\ UNCHANGED <<shmVars, apiVars, netVars, restVars, mState, mBuffers, mBufferSize, mReadIndex,
                   mWriteIndex, mStateLock, mWriteLock, mReadLock, tbuf, treq, handout>>

\* relay mode, Execute: InboundDataTransfer enters the read lock
GateInboundLock ==
    /\ tpc[MainThread] = "frame"
    /\ m_RelayMode
    /\ m_Connected
    /\ mReadLock = Unlocked
    /\ mReadLock' = MainThread
    /\ tpc' = [tpc EXCEPT ![MainThread] = "i_locked"]
    /\ UNCHANGED <<shmVars, apiVars, netVars, restVars, mState, mBuffers, mBufferSize, mReadIndex,
                   mWriteIndex, mStateLock, mWriteLock, tbuf, treq, handout>>

\* renderer mode, the callback before the swap chain: OutboundDataTransfer enters the write
\* lock and computes the size of its resources
GateOutboundLock ==
    /\ tpc[MainThread] = "frame"
    /\ ~m_RelayMode
    /\ mWriteLock = Unlocked
    /\ mWriteLock' = MainThread
    /\ \E size \in RingSizes : treq' = [treq EXCEPT ![MainThread] = size]
    /\ tpc' = [tpc EXCEPT ![MainThread] = "o_locked"]
    /\ UNCHANGED <<shmVars, apiVars, netVars, restVars, mState, mBuffers, mBufferSize, mReadIndex,
                   mWriteIndex, mStateLock, mReadLock, tbuf, handout>>

\* renderer mode, between two iterations: OnResize for another render width goes on to
\* reset; in relay mode OnResize returns before it
GateResize ==
    /\ ~m_RelayMode
    /\ ResetLockState(MainThread)

\* relay mode, the check box of the UI section: run_client starts HandleRenderer
GateConnect ==
    /\ tpc[MainThread] = "idle"
    /\ m_RelayMode
    /\ ~m_Connected
    /\ m_Connected' = TRUE
    /\ UNCHANGED <<shmVars, ringVars, apiVars, netVars, rest2Vars, m_RelayMode>>

\* FSRRemoteRenderModule::Init has run in either mode: the queue reset to the size of the
\* resources, connected already when StartOnLoad is set
InitGate ==
    /\ m_RelayMode \in BOOLEAN
    /\ m_Connected \in BOOLEAN
    /\ m_RelayMode \/ ~m_Connected
    /\ \E size \in RingSizes :
          /\ mState = reset(size).mState
          /\ mBuffers = reset(size).mBuffers
          /\ mBufferSize = reset(size).mBufferSize
    /\ apiLog = <<>>
    /\ run = [valid |-> TRUE, results |-> <<>>]
    /\ NetUnused
    /\ StreamerUnused
    /\ Rest3Unused
    /\ mReadIndex \in RingIdx
    /\ mWriteIndex \in RingIdx
    /\ mStateLock = Unlocked /\ mWriteLock = Unlocked /\ mReadLock = Unlocked
    /\ tpc = [t \in Threads |-> "idle"]
    /\ tbuf = [t \in Threads |-> nullptr]
    /\ treq = [t \in Threads |-> 0]
    /\ handout = [i \in RingIdx |-> NoHandout]
    /\ ShmInit(1, UnitResources)

NextGate ==
    \/ GatePoll
    \/ GateInboundReturn
    \/ GateInboundLock
    \/ InboundGet(MainThread)
    \/ ReaderRelease(MainThread)
    \/ GateOutboundLock
    \/ OutboundSkip(MainThread)
    \/ OutboundGet(MainThread)
    \/ WriterMark(MainThread)
    \/ WriterReturn(MainThread)
    \/ GateResize
    \/ ResetLockWrite(MainThread)
    \/ ResetLockRead(MainThread)
    \/ ResetBody(MainThread)
    \/ GateConnect
    \/ \E t \in Workers : ~m_RelayMode /\ ReaderLock(t)
    \/ \E t \in Workers : ~m_RelayMode /\ ReaderGet(t)
    \/ \E t \in Workers : ~m_RelayMode /\ ReaderRelease(t)
    \/ \E t \in Workers : m_RelayMode /\ m_Connected /\ WriterLock(t)
    \/ \E t \in Workers : m_RelayMode /\ WriterGet(t)
    \/ \E t \in Workers : m_RelayMode /\ WriterMark(t)
    \/ \E t \in Workers : m_RelayMode /\ WriterReturn(t)

SpecGate == InitGate /\ [][NextGate]_vars

(***************************************************************************)
(* Streamer: Encode from the threads that present the back buffers,        *)
(* ExecuteCopyCommand and Shutdown from the main thread                    *)
(***************************************************************************)
\* the back buffers of the swap chain, by index
BackBuffers == 0 .. (BackBufferCount - 1)

\* an Encode call that has not started or has returned
NoEncode == [pc |-> "idle", idx |-> 0, tries |-> 0, attempts |-> 0]

\* CauldronCritical, CauldronThrowOnFail: nothing runs after it
Running == sfault = "none"

\* condition_variable::notify_all: every thread blocked in wait is made runnable
notify_all == [t \in Threads |-> IF enc[t].pc = "e_blocked" THEN [enc[t] EXCEPT !.pc = "e_woken"] ELSE enc[t]]

\* the predicate Encode waits for
EncodeTurn(t) == m_frameIndex = enc[t].idx \/ ~m_isPipeOpen

\* Encode(backbufferIndex, frameIndex) is called for the next back buffer: it returns at once
\* when the pipe is closed
EncodeEnter(t) ==
    /\ Running
    /\ enc[t].pc = "idle"
    /\ encodes < MaxEncodes
    /\ encodes' = encodes + 1
    /\ nextBackBuffer' = (nextBackBuffer + 1) % BackBufferCount
    /\ enc' = [enc EXCEPT ![t] = IF m_isPipeOpen
                                 THEN [pc |-> "e_lock", idx |-> nextBackBuffer, tries |-> 0, attempts |-> 0]
                                 ELSE NoEncode]
    /\ UNCHANGED <<shmVars, ringVars, apiVars, netVars, gateVars, rest3Vars, m_isPipeOpen, m_frameIndex,
                   m_encodeMutex, m_bufferMutex, written, copies, gaveUp, sfault, shutdown>>

\* Encode: unique_lock on m_bufferMutex, at first or when the wait returns from blocking
EncodeLockBuffer(t) ==
    /\ Running
    /\ enc[t].pc \in {"e_lock", "e_woken"}
    /\ m_bufferMutex = Unlocked
    /\ m_bufferMutex' = t
    /\ enc' = [enc EXCEPT ![t].pc = "e_pred"]
    /\ UNCHANGED <<shmVars, ringVars, apiVars, netVars, gateVars, rest3Vars, m_isPipeOpen, m_frameIndex,
                   m_encodeMutex, written, copies, gaveUp, sfault, shutdown, encodes, nextBackBuffer>>

\* Encode: wait evaluates the predicate with the mutex held; when it holds the wait is over
\* and the lock is left, when not the thread goes on to block
EncodePredicate(t) ==
    /\ Running
    /\ enc[t].pc = "e_pred"
    /\ IF EncodeTurn(t)
       THEN /\ m_bufferMutex' = Unlocked
            /\ enc' = [enc EXCEPT ![t].pc = "e_open"]
       ELSE /\ enc' = [enc EXCEPT ![t].pc = "e_sleep"]
            /\ UNCHANGED m_bufferMutex
    /\ UNCHANGED <<shmVars, ringVars, apiVars, netVars, gateVars, rest3Vars, m_isPipeOpen, m_frameIndex,
                   m_encodeMutex, written, copies, gaveUp, sfault, shutdown, encodes, nextBackBuffer>>

\* Encode: condition_variable::wait(lock) leaves the mutex and blocks
EncodeBlock(t) ==
    /\ Running
    /\ enc[t].pc = "e_sleep"
    /\ m_bufferMutex' = Unlocked
    /\ enc' = [enc EXCEPT ![t].pc = "e_blocked"]
    /\ UNCHANGED <<shmVars, ringVars, apiVars, netVars, gateVars, rest3Vars, m_isPipeOpen, m_frameIndex,
                   m_encodeMutex, written, copies, gaveUp, sfault, shutdown, encodes, nextBackBuffer>>

\* condition_variable::wait may return without a notification
EncodeSpuriousWake(t) ==
    /\ Running
    /\ enc[t].pc = "e_blocked"
    /\ enc' = [enc EXCEPT ![t].pc = "e_woken"]
    /\ UNCHANGED <<shmVars, ringVars, apiVars, netVars, gateVars, rest3Vars, m_isPipeOpen, m_frameIndex,
                   m_encodeMutex, m_bufferMutex, written, copies, gaveUp, sfault, shutdown, encodes,
                   nextBackBuffer>>

\* Encode after the wait: it returns when the pipe is closed, else it copies the back buffer
\* to memory and goes on to m_encodeMutex
EncodeAfterWait(t) ==
    /\ Running
    /\ enc[t].pc = "e_open"
    /\ enc' = [enc EXCEPT ![t] = IF m_isPipeOpen THEN [@ EXCEPT !.pc = "e_copied"] ELSE NoEncode]
    /\ UNCHANGED <<shmVars, ringVars, apiVars, netVars, gateVars, rest3Vars, m_isPipeOpen, m_frameIndex,
                   m_encodeMutex, m_bufferMutex, written, copies, gaveUp, sfault, shutdown, encodes,
                   nextBackBuffer>>

\* Encode: lock_guard on m_encodeMutex, then the pipe is looked at once more
EncodeLockEncode(t) ==
    /\ Running
    /\ enc[t].pc = "e_copied"
    /\ m_encodeMutex = Unlocked
    /\ m_encodeMutex' = t
    /\ enc' = [enc EXCEPT ![t].pc = IF m_isPipeOpen THEN "e_write" ELSE "e_fail"]
    /\ UNCHANGED <<shmVars, ringVars, apiVars, netVars, gateVars, rest3Vars, m_isPipeOpen, m_frameIndex,
                   m_bufferMutex, written, copies, gaveUp, sfault, shutdown, encodes, nextBackBuffer>>

\* Encode, in the loop: WriteFile writes the whole frame, or less
EncodeWrite(t) ==
    /\ Running
    /\ enc[t].pc = "e_write"
    /\ enc[t].tries < MaxTries
    /\ \E whole \in BOOLEAN :
          IF whole
          THEN /\ written' = Append(written, enc[t].idx)
               /\ enc' = [enc EXCEPT ![t].pc = "e_release", ![t].attempts = @ + 1]
          ELSE /\ enc' = [enc EXCEPT ![t].pc = "e_terminate", ![t].attempts = @ + 1]
               /\ UNCHANGED written
    /\ UNCHANGED <<shmVars, ringVars, apiVars, netVars, gateVars, rest3Vars, m_isPipeOpen, m_frameIndex,
                   m_encodeMutex, m_bufferMutex, copies, gaveUp, sfault, shutdown, encodes, nextBackBuffer>>

\* Encode, in the loop after a short write: TerminatePublisher
EncodeTerminate(t) ==
    /\ Running
    /\ enc[t].pc = "e_terminate"
    /\ m_isPipeOpen' = FALSE
    /\ enc' = [enc EXCEPT ![t].pc = "e_create"]
    /\ UNCHANGED <<shmVars, ringVars, apiVars, netVars, gateVars, rest3Vars, m_frameIndex,
                   m_encodeMutex, m_bufferMutex, written, copies, gaveUp, sfault, shutdown, encodes,
                   nextBackBuffer>>

\* Encode, in the loop after a short write: CreateEncoderAndPublisher and tries++; the pipe
\* is open again, or CreatePipe or CreateProcess has failed and that is critical
EncodeCreate(t) ==
    /\ Running
    /\ enc[t].pc = "e_create"
    /\ \E created \in BOOLEAN :
          IF created
          THEN /\ m_isPipeOpen' = TRUE
               /\ enc' = [enc EXCEPT ![t].tries = @ + 1,
                                     ![t].pc = IF enc[t].tries + 1 < MaxTries THEN "e_write" ELSE "e_fail"]
               /\ UNCHANGED sfault
          ELSE /\ sfault' = "critical"
               /\ UNCHANGED <<m_isPipeOpen, enc>>
    /\ UNCHANGED <<shmVars, ringVars, apiVars, netVars, gateVars, rest3Vars, m_frameIndex,
                   m_encodeMutex, m_bufferMutex, written, copies, gaveUp, shutdown, encodes,
                   nextBackBuffer>>

\* Encode, at fail: the warning and TerminatePublisher
EncodeFail(t) ==
    /\ Running
    /\ enc[t].pc = "e_fail"
    /\ m_isPipeOpen' = FALSE
    /\ gaveUp' = (gaveUp \/ enc[t].tries >= MaxTries)
    /\ enc' = [enc EXCEPT ![t].pc = "e_release"]
    /\ UNCHANGED <<shmVars, ringVars, apiVars, netVars, gateVars, rest3Vars, m_frameIndex,
                   m_encodeMutex, m_bufferMutex, written, copies, sfault, shutdown, encodes,
                   nextBackBuffer>>

\* Encode, at release: the frame index moves to the next back buffer
EncodeRelease(t) ==
    /\ Running
    /\ enc[t].pc = "e_release"
    /\ m_frameIndex' = (enc[t].idx + 1) % BackBufferCount
    /\ enc' = [enc EXCEPT ![t].pc = "e_notify"]
    /\ UNCHANGED <<shmVars, ringVars, apiVars, netVars, gateVars, rest3Vars, m_isPipeOpen,
                   m_encodeMutex, m_bufferMutex, written, copies, gaveUp, sfault, shutdown, encodes,
                   nextBackBuffer>>

\* Encode, at release: notify_all, and the lock_guard leaves m_encodeMutex
EncodeNotify(t) ==
    /\ Running
    /\ enc[t].pc = "e_notify"
    /\ enc' = [notify_all EXCEPT ![t] = NoEncode]
    /\ m_encodeMutex' = Unlocked
    /\ UNCHANGED <<shmVars, ringVars, apiVars, netVars, gateVars, rest3Vars, m_isPipeOpen, m_frameIndex,
                   m_bufferMutex, written, copies, gaveUp, sfault, shutdown, encodes, nextBackBuffer>>

\* ExecuteCopyCommand: the copy to the readback buffer is recorded while the pipe is open
ExecuteCopyCommand ==
    /\ Running
    /\ shutdown = "no"
    /\ m_isPipeOpen
    /\ copies < MaxEncodes
    /\ copies' = copies + 1
    /\ UNCHANGED <<shmVars, ringVars, apiVars, netVars, gateVars, rest3Vars, m_isPipeOpen, m_frameIndex,
                   m_encodeMutex, m_bufferMutex, enc, written, gaveUp, sfault, shutdown, encodes,
                   nextBackBuffer>>

\* Shutdown looks at the pipe: closed, there is nothing to do
ShutdownEnter ==
    /\ Running
    /\ shutdown = "no"
    /\ shutdown' = IF m_isPipeOpen THEN "terminate" ELSE "done"
    /\ UNCHANGED <<shmVars, ringVars, apiVars, netVars, gateVars, rest3Vars, m_isPipeOpen, m_frameIndex,
                   m_encodeMutex, m_bufferMutex, enc, written, copies, gaveUp, sfault, encodes,
                   nextBackBuffer>>

\* Shutdown: TerminatePublisher
ShutdownTerminate ==
    /\ Running
    /\ shutdown = "terminate"
    /\ m_isPipeOpen' = FALSE
    /\ shutdown' = "notify"
    /\ UNCHANGED <<shmVars, ringVars, apiVars, netVars, gateVars, rest3Vars, m_frameIndex,
                   m_encodeMutex, m_bufferMutex, enc, written, copies, gaveUp, sfault, encodes,
                   nextBackBuffer>>

\* Shutdown: m_bufferCV.notify_all()
ShutdownNotify ==
    /\ Running
    /\ shutdown = "notify"
    /\ enc' = notify_all
    /\ shutdown' = "notified"
    /\ UNCHANGED <<shmVars, ringVars, apiVars, netVars, gateVars, rest3Vars, m_isPipeOpen, m_frameIndex,
                   m_encodeMutex, m_bufferMutex, written, copies, gaveUp, sfault, encodes,
                   nextBackBuffer>>

\* Streamer::Init has run: the publisher is started and the pipe open
StreamerInit ==
    /\ m_isPipeOpen = TRUE
    /\ m_frameIndex = 0
    /\ m_encodeMutex = Unlocked
    /\ m_bufferMutex = Unlocked
    /\ enc = [t \in Threads |-> NoEncode]
    /\ written = <<>>
    /\ copies = 0
    /\ gaveUp = FALSE
    /\ sfault = "none"
    /\ shutdown = "no"
    /\ encodes = 0
    /\ nextBackBuffer = 0

InitStreamer == RingUnused /\ GateUnused /\ Rest3Unused /\ StreamerInit /\ ShmInit(1, UnitResources)

\* one step of an Encode call that is under way
EncodeStep(t) ==
    \/ EncodeLockBuffer(t)
    \/ EncodePredicate(t)
    \/ EncodeBlock(t)
    \/ EncodeAfterWait(t)
    \/ EncodeLockEncode(t)
    \/ EncodeWrite(t)
    \/ EncodeTerminate(t)
    \/ EncodeCreate(t)
    \/ EncodeFail(t)
    \/ EncodeRelease(t)
    \/ EncodeNotify(t)

ShutdownStep ==
    \/ ShutdownTerminate
    \/ ShutdownNotify

NextStreamer ==
    \/ \E t \in Threads : EncodeEnter(t)
    \/ \E t \in Threads : EncodeStep(t)
    \/ \E t \in Threads : EncodeSpuriousWake(t)
    \/ ExecuteCopyCommand
    \/ ShutdownEnter
    \/ ShutdownStep

SpecStreamer == InitStreamer /\ [][NextStreamer]_vars

\* every thread that is inside Encode goes on when it can, and so does Shutdown; a wait
\* need not return without a notification
LiveStreamer ==
    /\ SpecStreamer
    /\ \A t \in Threads : SF_vars(EncodeStep(t))
    /\ WF_vars(ShutdownStep)

(***************************************************************************)
(* FPSLimiterRenderModule: Execute once per frame, on the CPU against the  *)
(* performance counter or on the GPU with a load sized by the overhead     *)
(***************************************************************************)
\* the positions of the "Target FPS" slider that are looked at
TargetRates == {5, 24}

\* DampenFactor is 0.05
DampenDivisor == 20
MaxTargetFrameTimeUs == 200000
MinTargetFrameTimeUs == 50
MinOverhead == 1
MaxOverhead == 1000000
MicrosPerSecond == 1000000

Larger(a, b) == IF a < b THEN b ELSE a

RECURSIVE GCD(_, _)
GCD(a, b) == IF b = 0 THEN a ELSE GCD(b, a % b)

\* the values m_Overhead may hold when the first Execute runs
InitialOverheads ==
    {MinOverhead * OverheadScale, 2 * MinOverhead * OverheadScale, MaxOverhead * OverheadScale}

\* int64_t targetFrameTicks = qpf.QuadPart / m_TargetFPS
targetFrameTicks == QpcFrequency \div m_TargetFPS

\* clampedTargetFrameTimeMs, from uint64_t targetFrameTimeUs = 1000000 / m_TargetFPS
clampedTargetFrameTime ==
    Larger(Min(MicrosPerSecond \div m_TargetFPS, MaxTargetFrameTimeUs), MinTargetFrameTimeUs)

\* the frame times the GPU timings may report: none yet, the target, twice the target
FrameTimes == {0, clampedTargetFrameTime, 2 * clampedTargetFrameTime}

\* m_FrameTimeHistorySum after the new sample has replaced the oldest one, which is kept
\* in the sum
HistorySum_NoEvict(sum, history, count, lastFrameTimeUs) == sum + lastFrameTimeUs

\* m_FrameTimeHistorySum with the newest sample taken out of it instead of the oldest
HistorySum_EvictNewest(sum, history, count, lastFrameTimeUs) ==
    (IF count >= FrameTimeHistoryLen THEN sum - history[(count - 1) % FrameTimeHistoryLen] ELSE sum)
        + lastFrameTimeUs

\* m_FrameTimeHistorySum after the new sample has replaced the oldest one
HistorySum(sum, history, count, lastFrameTimeUs) ==
    (IF count >= FrameTimeHistoryLen THEN sum - history[count % FrameTimeHistoryLen] ELSE sum)
        + lastFrameTimeUs

\* m_Overhead * deltaRatio * DampenFactor, which is overhead * (sum - target * n) over
\* target * n * DampenDivisor as the mean is sum / n, rounded down to the precision
\* m_Overhead is kept with
\* the quotient is taken in lowest terms and by parts, which keeps every intermediate value
\* small and gives the same result
OverheadAdjust(overhead, sum, n) ==
    LET target == clampedTargetFrameTime
        num == sum - target * n
        den == target * n * DampenDivisor
        g == GCD(den, IF num < 0 THEN 0 - num ELSE num)
        b == num \div g
        d == den \div g
    IN (overhead \div d) * b + ((overhead % d) * b) \div d

\* the update without std::min and std::max
NextOverhead_NoClamp(overhead, sum, n) == overhead - OverheadAdjust(overhead, sum, n)

\* m_Overhead after the dampened proportional update and the clamp
NextOverhead(overhead, sum, n) ==
    Min(Larger(MinOverhead * OverheadScale, overhead - OverheadAdjust(overhead, sum, n)),
        MaxOverhead * OverheadScale)

\* uint32_t numLoops = static_cast<uint32_t>(m_Overhead)
numLoops == m_Overhead \div OverheadScale

\* Execute with the limiter disabled returns at once
ExecuteDisabled ==
    /\ ~m_LimitFPS
    /\ lim.pc = "idle"
    /\ lim.executes < MaxExecutes
    /\ lim' = [lim EXCEPT !.executes = @ + 1, !.firstQpc = IF lim.executes = 0 THEN qpc ELSE @]
    /\ UNCHANGED <<shmVars, ringVars, apiVars, netVars, gateVars, streamVars, rest4Vars,
                   m_LimitFPS, m_LimitGPU, m_TargetFPS, qpc, lastFrame, m_Overhead,
                   m_FrameTimeHistory, m_FrameTimeHistorySum, m_FrameTimeHistoryCount>>

\* Execute, CPU limiter: timeNow is read and compared with lastFrame
ExecuteCPU ==
    /\ m_LimitFPS
    /\ ~m_LimitGPU
    /\ lim.pc = "idle"
    /\ lim.executes < MaxExecutes
    /\ LET timeNow == qpc
           delta == timeNow - lastFrame
       IN lim' = [lim EXCEPT !.pc = IF delta < targetFrameTicks THEN "spin" ELSE "stamp",
                             !.targetQPC = lastFrame + targetFrameTicks,
                             !.firstQpc = IF lim.executes = 0 THEN qpc ELSE @]
    /\ UNCHANGED <<shmVars, ringVars, apiVars, netVars, gateVars, streamVars, rest4Vars,
                   m_LimitFPS, m_LimitGPU, m_TargetFPS, qpc, lastFrame, m_Overhead,
                   m_FrameTimeHistory, m_FrameTimeHistorySum, m_FrameTimeHistoryCount>>

\* TimerSleepQPC: the loop ends at the first reading that has reached targetQPC
TimerSleepQPC ==
    /\ lim.pc = "spin"
    /\ qpc >= lim.targetQPC
    /\ lim' = [lim EXCEPT !.pc = "stamp"]
    /\ UNCHANGED <<shmVars, ringVars, apiVars, netVars, gateVars, streamVars, rest4Vars,
                   m_LimitFPS, m_LimitGPU, m_TargetFPS, qpc, lastFrame, m_Overhead,
                   m_FrameTimeHistory, m_FrameTimeHistorySum, m_FrameTimeHistoryCount>>

\* QueryPerformanceCounter(&lastFrame), and Execute returns
ExecuteStamp ==
    /\ lim.pc = "stamp"
    /\ lastFrame' = qpc
    /\ lim' = [lim EXCEPT !.pc = "idle", !.executes = @ + 1]
    /\ UNCHANGED <<shmVars, ringVars, apiVars, netVars, gateVars, streamVars, rest4Vars,
                   m_LimitFPS, m_LimitGPU, m_TargetFPS, qpc, m_Overhead,
                   m_FrameTimeHistory, m_FrameTimeHistorySum, m_FrameTimeHistoryCount>>

\* the performance counter advances by one tick: while TimerSleepQPC polls it (the poll that
\* ends the loop may come up to MaxOvershoot ticks late), or while the caller works between
\* two calls of Execute
Tick ==
    /\ \/ /\ lim.pc = "spin"
          /\ qpc < lim.targetQPC + MaxOvershoot
          /\ lim' = lim
       \/ /\ lim.pc = "idle"
          /\ lim.executes > 0
          /\ m_LimitFPS /\ ~m_LimitGPU
          /\ lim.worked < MaxWork
          /\ lim' = [lim EXCEPT !.worked = @ + 1]
    /\ qpc' = qpc + 1
    /\ UNCHANGED <<shmVars, ringVars, apiVars, netVars, gateVars, streamVars, rest4Vars,
                   m_LimitFPS, m_LimitGPU, m_TargetFPS, lastFrame, m_Overhead,
                   m_FrameTimeHistory, m_FrameTimeHistorySum, m_FrameTimeHistoryCount>>

\* Execute, GPU limiter: the last frame's time enters the history, and the overhead follows
\* the difference between the history's mean and the target
ExecuteGPU ==
    /\ m_LimitFPS
    /\ m_LimitGPU
    /\ lim.pc = "idle"
    /\ lim.executes < MaxExecutes
    /\ \E lastFrameTimeUs \in FrameTimes :
         LET sum == HistorySum(m_FrameTimeHistorySum, m_FrameTimeHistory,
                               m_FrameTimeHistoryCount, lastFrameTimeUs)
             count == m_FrameTimeHistoryCount + 1
         IN /\ m_FrameTimeHistorySum' = sum
            /\ m_FrameTimeHistory' = [m_FrameTimeHistory EXCEPT
                                        ![m_FrameTimeHistoryCount % FrameTimeHistoryLen] = lastFrameTimeUs]
            /\ m_FrameTimeHistoryCount' = count
            /\ m_Overhead' = NextOverhead(m_Overhead, sum, Min(count, FrameTimeHistoryLen))
    /\ lim' = [lim EXCEPT !.executes = @ + 1]
    /\ UNCHANGED <<shmVars, ringVars, apiVars, netVars, gateVars, streamVars, rest4Vars,
                   m_LimitFPS, m_LimitGPU, m_TargetFPS, qpc, lastFrame>>

\* the module after Init: the configuration is read, lastFrame is zero, no frame time is
\* recorded; the performance counter stands at zero or at a second after the machine started
LimiterInit ==
    /\ m_LimitFPS \in BOOLEAN
    /\ m_LimitGPU \in BOOLEAN
    /\ m_TargetFPS \in TargetRates
    /\ qpc \in {0, QpcFrequency}
    /\ lastFrame = 0
    /\ lim = NoExecute
    /\ m_Overhead \in InitialOverheads
    /\ m_FrameTimeHistory = [i \in 0 .. (FrameTimeHistoryLen - 1) |-> 0]
    /\ m_FrameTimeHistorySum = 0
    /\ m_FrameTimeHistoryCount = 0

InitLimiter ==
    /\ RingUnused /\ GateUnused /\ StreamerUnused /\ Rest4Unused
    /\ LimiterInit
    /\ ShmInit(1, UnitResources)

NextLimiter ==
    \/ ExecuteDisabled
    \/ ExecuteCPU
    \/ TimerSleepQPC
    \/ ExecuteStamp
    \/ Tick
    \/ ExecuteGPU

SpecLimiter == InitLimiter /\ [][NextLimiter]_vars

(***************************************************************************)
(* Teardown: TSROps::~TSROps on each process's TSROps (or on a copy of it, *)
(* which holds the same pointers), and tsr_map_udta / tsr_unmap_udta       *)
(***************************************************************************)
\* the Release calls process p has made on the resource and the fence of slot i
Releases(p, i) == IF i \in DOMAIN released[p] THEN released[p][i] ELSE 0

\* whether the destructor finds the pointers of slot i non-null
HasPointers_NulledAfterRelease(p, i) == i \in DOMAIN p_SharedBuffer[p] /\ Releases(p, i) = 0

\* whether the destructor finds the pointers of slot i non-null: CreateSharedBuffers has
\* stored them, and nothing sets them back to null
HasPointers(p, i) == i \in DOMAIN p_SharedBuffer[p]

\* ~TSROps is entered
DestructorEnter(p) ==
    /\ pc[p] # "terminated"
    /\ ~teardowns[p].in
    /\ teardowns[p].runs < MaxTeardowns
    /\ teardowns' = [teardowns EXCEPT ![p] = [@ EXCEPT !.in = TRUE, !.i = 0]]
    /\ UNCHANGED <<shmVars, ringVars, apiVars, netVars, gateVars, streamVars, limVars, rest5Vars, released, udta>>

\* ~TSROps, one turn of the loop: Release on the resource and on the fence when the pointers
\* are not null. The process holds one reference to each, so a Release after the first one
\* is a call on an object that is gone: it may go through, or fault
DestructorSlot(p) ==
    /\ pc[p] # "terminated"
    /\ teardowns[p].in
    /\ teardowns[p].i < m_BufferCount
    /\ LET i == teardowns[p].i
           counted == [released EXCEPT ![p] = (i :> (Releases(p, i) + 1)) @@ @]
           next == [teardowns EXCEPT ![p] = [@ EXCEPT !.i = i + 1]]
       IN IF ~HasPointers(p, i)
          THEN /\ teardowns' = next
               /\ UNCHANGED <<released, pc, fault>>
          ELSE IF Releases(p, i) = 0
          THEN /\ teardowns' = next
               /\ released' = counted
               /\ UNCHANGED <<pc, fault>>
          ELSE \/ /\ teardowns' = next
                  /\ released' = counted
                  /\ UNCHANGED <<pc, fault>>
               \/ /\ Terminate(p, "release")
                  /\ UNCHANGED <<released, teardowns>>
    /\ UNCHANGED <<ringVars, apiVars, netVars, gateVars, streamVars, limVars, rest5Vars, udta,
                   m_BufferCount, m_pSharedName, namedObjects, p_SharedBuffer, fence, shared,
                   pResources, surf, bufferIndex, frames, cmdList, queue, gpuExec, produced,
                   consumed, toCount, everReady>>

\* ~TSROps returns
DestructorReturn(p) ==
    /\ pc[p] # "terminated"
    /\ teardowns[p].in
    /\ teardowns[p].i = m_BufferCount
    /\ teardowns' = [teardowns EXCEPT ![p] = [@ EXCEPT !.in = FALSE, !.runs = @ + 1]]
    /\ UNCHANGED <<shmVars, ringVars, apiVars, netVars, gateVars, streamVars, limVars, rest5Vars, released, udta>>

\* tsr_map_udta: nothing when the data is mapped; else the mapping is created, viewed, and
\* the array is filled; a failed CreateFileMapping or MapViewOfFile ends the process
tsr_map_udta ==
    /\ udta.fault = "none"
    /\ udta.calls < MaxTeardowns
    /\ IF udta.sharedDataArray
       THEN udta' = [udta EXCEPT !.calls = @ + 1]
       ELSE \E ok \in BOOLEAN :
              udta' = IF ok
                      THEN [udta EXCEPT !.sharedDataHandle = TRUE, !.sharedView = TRUE,
                                        !.sharedDataArray = TRUE, !.maps = @ + 1, !.calls = @ + 1]
                      ELSE [udta EXCEPT !.fault = "mapping"]
    /\ UNCHANGED <<shmVars, ringVars, apiVars, netVars, gateVars, streamVars, limVars, rest5Vars, released, teardowns>>

\* tsr_unmap_udta: the view is unmapped and the array nulled when the array's first entry
\* is set, the handle closed and nulled when it is set
tsr_unmap_udta ==
    /\ udta.fault = "none"
    /\ udta.uncalls < MaxTeardowns
    /\ LET a == IF udta.sharedDataArray
                THEN [udta EXCEPT !.sharedView = FALSE, !.sharedDataArray = FALSE, !.unmaps = @ + 1]
                ELSE udta
           b == IF a.sharedDataHandle
                THEN [a EXCEPT !.sharedDataHandle = FALSE, !.closes = @ + 1]
                ELSE a
       IN udta' = [b EXCEPT !.uncalls = @ + 1]
    /\ UNCHANGED <<shmVars, ringVars, apiVars, netVars, gateVars, streamVars, limVars, rest5Vars, released, teardowns>>

InitTeardown ==
    /\ RingUnused /\ GateUnused /\ StreamerUnused /\ LimiterUnused /\ TeardownUnused /\ Rest5Unused
    /\ \E n \in 1 .. MaxBufferCount : ShmInit(n, UnitResources)

\* CreateSharedBuffers is called once, right after construction (tsrrendermodule.cpp:63-69)
NextTeardown ==
    \/ \E p \in Procs : teardowns[p].runs = 0 /\ ~teardowns[p].in /\ CreateSharedBuffers(p)
    \/ \E p \in Procs : DestructorEnter(p)
    \/ \E p \in Procs : DestructorSlot(p)
    \/ \E p \in Procs : DestructorReturn(p)
    \/ tsr_map_udta
    \/ tsr_unmap_udta

SpecTeardown == InitTeardown /\ [][NextTeardown]_vars

(***************************************************************************)
(* One producer and one consumer on a BufferRing, each call under the      *)
(* ring's locks, with the order of the hand-outs remembered                *)
(***************************************************************************)
Producer == MainThread
Consumer == RelayThread

\* the producer takes the next Empty buffer with getNextEmptyBuffer(getBufferSize())
FifoGetEmpty ==
    /\ tbuf[Producer] = nullptr
    /\ Len(fifo.given) < MaxFifo
    /\ LET r == getNextEmptyBuffer(mBufferSize)
       IN /\ mWriteIndex' = r.mWriteIndex
          /\ mState' = r.mState
          /\ tbuf' = [tbuf EXCEPT ![Producer] = r.buffer]
          /\ fifo' = IF r.buffer = nullptr THEN fifo
                     ELSE [fifo EXCEPT !.given = Append(@, r.buffer[1])]
    /\ UNCHANGED <<shmVars, apiVars, netVars, gateVars, streamVars, limVars, tdVars, castVars,
                   mBuffers, mBufferSize, mReadIndex, mStateLock, mWriteLock, mReadLock,
                   tpc, treq, handout>>

\* the producer has filled its buffer: markBufferReady
FifoMarkReady ==
    /\ tbuf[Producer] # nullptr
    /\ mState' = markBufferReady(tbuf[Producer])
    /\ tbuf' = [tbuf EXCEPT ![Producer] = nullptr]
    /\ UNCHANGED <<shmVars, apiVars, netVars, gateVars, streamVars, limVars, tdVars, castVars, fifo,
                   mBuffers, mBufferSize, mReadIndex, mWriteIndex, mStateLock, mWriteLock,
                   mReadLock, tpc, treq, handout>>

\* the consumer takes the next Ready buffer with getNextReadyBuffer
FifoGetReady ==
    /\ tbuf[Consumer] = nullptr
    /\ LET r == getNextReadyBuffer
       IN /\ mReadIndex' = r.mReadIndex
          /\ tbuf' = [tbuf EXCEPT ![Consumer] = r.buffer]
          /\ fifo' = IF r.buffer = nullptr THEN fifo
                     ELSE [fifo EXCEPT !.taken = Append(@, r.buffer[1])]
    /\ UNCHANGED <<shmVars, apiVars, netVars, gateVars, streamVars, limVars, tdVars, castVars,
                   mState, mBuffers, mBufferSize, mWriteIndex, mStateLock, mWriteLock, mReadLock,
                   tpc, treq, handout>>

\* the consumer is done with its buffer: releaseBuffer
FifoRelease ==
    /\ tbuf[Consumer] # nullptr
    /\ mState' = releaseBuffer(tbuf[Consumer])
    /\ tbuf' = [tbuf EXCEPT ![Consumer] = nullptr]
    /\ UNCHANGED <<shmVars, apiVars, netVars, gateVars, streamVars, limVars, tdVars, castVars, fifo,
                   mBuffers, mBufferSize, mReadIndex, mWriteIndex, mStateLock, mWriteLock,
                   mReadLock, tpc, treq, handout>>

\* reset(size), which holds all three locks: the producer and the consumer are between two
\* calls, some buffers may be Ready; the order is counted anew from here
FifoReset ==
    /\ tbuf[Producer] = nullptr
    /\ tbuf[Consumer] = nullptr
    /\ fifo.given # <<>>
    /\ \E size \in RingSizes :
         /\ mBufferSize' = reset(size).mBufferSize
         /\ mState' = reset(size).mState
         /\ mBuffers' = reset(size).mBuffers
    /\ fifo' = [given |-> <<>>, taken |-> <<>>,
                aligned |-> (mReadIndex % DEFAULT_BUFLEN = mWriteIndex % DEFAULT_BUFLEN)]
    /\ UNCHANGED <<shmVars, apiVars, netVars, gateVars, streamVars, limVars, tdVars, castVars,
                   mReadIndex, mWriteIndex, mStateLock, mWriteLock, mReadLock,
                   tpc, tbuf, treq, handout>>

\* the ring as its constructor leaves it, nothing handed out yet
InitFifo ==
    /\ RingInit /\ GateUnused /\ StreamerUnused /\ LimiterUnused /\ TeardownUnused /\ CastUnused
    /\ fifo = [given |-> <<>>, taken |-> <<>>,
               aligned |-> (mReadIndex % DEFAULT_BUFLEN = mWriteIndex % DEFAULT_BUFLEN)]
    /\ ShmInit(1, UnitResources)

NextFifo ==
    \/ FifoGetEmpty
    \/ FifoMarkReady
    \/ FifoGetReady
    \/ FifoRelease
    \/ FifoReset

SpecFifo == InitFifo /\ [][NextFifo]_vars

(***************************************************************************)
(* The payload length HandleRelay passes to send and HandleRenderer to     *)
(* recv: size_t bufferSize, asserted and cast to int                       *)
(***************************************************************************)
UINT32_MAX == 2 ^ IntBits - 1
INT_MAX == 2 ^ (IntBits - 1) - 1

\* the values of size_t that are looked at: up to UINT32_MAX and beyond
BufferSizes == 0 .. (2 * UINT32_MAX)

\* (int)v for an unsigned v: the value modulo 2^width, read as two's complement
IntCast(v) ==
    LET low == v % (2 ^ IntBits)
    IN IF low > INT_MAX THEN low - 2 ^ IntBits ELSE low

\* CauldronAssert(ASSERT_CRITICAL, bufferSize <= UINT32_MAX, ...)
XferAssert ==
    /\ xfer.pc = "size"
    /\ xfer' = [xfer EXCEPT !.pc = IF xfer.bufferSize <= UINT32_MAX THEN "asserted" ELSE "critical"]
    /\ UNCHANGED <<shmVars, ringVars, apiVars, netVars, gateVars, streamVars, limVars, tdVars, fifoVars>>

\* send(socket, (char*)buffer->get(), (int)bufferSize, 0) in HandleRelay,
\* recv(socket, (char*)buffer->get(), (int)bufferSize, 0) in HandleRenderer
XferCall ==
    /\ xfer.pc = "asserted"
    /\ xfer' = [xfer EXCEPT !.pc = "called", !.len = IntCast(xfer.bufferSize)]
    /\ UNCHANGED <<shmVars, ringVars, apiVars, netVars, gateVars, streamVars, limVars, tdVars, fifoVars>>

\* the size is known: getBufferSize() in HandleRelay, read from the socket in HandleRenderer
InitCast ==
    /\ RingUnused /\ GateUnused /\ StreamerUnused /\ LimiterUnused /\ TeardownUnused /\ FifoUnused
    /\ ShmInit(1, UnitResources)
    /\ \E by \in {"HandleRelay", "HandleRenderer"}, bufferSize \in BufferSizes :
          xfer = [pc |-> "size", by |-> by, bufferSize |-> bufferSize, len |-> 0]

NextCast ==
    \/ XferAssert
    \/ XferCall

SpecCast == InitCast /\ [][NextCast]_vars

(***************************************************************************)
(* The two processes on the shared-memory ring, each main loop and each    *)
(* GPU queue going on whenever it can                                      *)
(***************************************************************************)
\* one step of process p's main loop
MainLoopStep(p) == CreateSharedBuffers(p) \/ Poll(p) \/ Transfer(p) \/ EndFrame(p)

\* one step of process p's GPU queue
QueueStep(p) == GpuSignal(p) \/ GpuBegin(p) \/ GpuEnd(p)

\* a main loop that can run an iteration does, a queue with work executes it; the renderer
\* need not ask to exit
LiveShm ==
    /\ Spec
    /\ \A p \in Procs : WF_vars(MainLoopStep(p))
    /\ \A p \in Procs : WF_vars(QueueStep(p))

(***************************************************************************)
(* Properties of the shared-memory handoff                                 *)
(***************************************************************************)
\* the buffers a command list copies into (toShared) or out of
CopyBufs(cmds, toShared) ==
    {cmds[n].buf : n \in {m \in 1 .. Len(cmds) : cmds[m].op = "copy" /\ cmds[m].to = toShared}}

\* C1: with both main loops gated by their readiness function, the state assertion at the
\* start of PerformTransfer never fails
C1_AssertionNeverFails == \A p \in Procs : fault[p] # "state"

\* C2: what the upscaler copied out of the ring and worked on is a prefix of the frames the
\* renderer copied into it: nothing dropped, overwritten, repeated or reordered
C2_ConsumedPrefixOfProduced ==
    /\ Len(consumed) <= Len(produced)
    /\ \A k \in 1 .. Len(consumed) :
          k <= Len(produced) => consumed[k] = FrameContent(pResources, produced[k])

\* C3: the renderer's copy into a slot and the upscaler's copy out of the same slot are never
\* executing at the same time
C3_NoOverlapOnSlot ==
    CopyBufs(gpuExec["R"], TRUE) \cap CopyBufs(gpuExec["U"], FALSE) = {}

\* the slot's counter is not in the state the transfer of process p expects
WrongState(p) ==
    /\ bufferIndex[p] < m_BufferCount
    /\ fence[p_SharedBuffer[p][bufferIndex[p]][2]] # (IF p = "R" THEN IDLE ELSE READY)

\* C4: a transfer that finds its slot's counter in the wrong state terminates the process
\* and records no barrier or copy command and queues no signal
C4_WrongStateIsFatalAndInert ==
    [][\A p \in Procs :
          (pc[p] = "body" /\ WrongState(p) /\ pc'[p] # "body") =>
              /\ pc'[p] = "terminated" /\ fault'[p] = "state"
              /\ cmdList' = cmdList /\ queue' = queue /\ fence' = fence /\ shared' = shared]_vars

\* a transfer was attempted on a slot whose counter was in the wrong state
C4_Witness == \E p \in Procs : fault[p] = "state" /\ pc[p] = "terminated"

\* C5 as stated: right after the producer creates the ring every slot reads IDLE and not
\* READY, and a slot first reads READY after exactly one TransferToSharedBuffer on it
C5_ReadyAfterExactlyOneTransfer ==
    [][/\ (pc["R"] = "init" /\ pc'["R"] = "poll") =>
            \A i \in Slots : fence'[p_SharedBuffer'["R"][i][2]] = IDLE
                              /\ fence'[p_SharedBuffer'["R"][i][2]] # READY
       /\ \A i \in Slots : (~everReady[i] /\ everReady'[i]) => toCount[i] = 1]_vars

RoundTripDone ==
    /\ pc["R"] = "poll" /\ pc["U"] = "poll"
    /\ Drained
    /\ frames["R"] > 0 /\ frames["U"] = frames["R"]

\* C7: once TransferToSharedBuffer on a slot has been followed by TransferFromSharedBuffer on
\* that slot with the same surface list and both queues have run, every surface of the
\* receiver holds byte for byte what the sender's surface holds, and the counter reads IDLE
C7_RoundTripIdentical ==
    RoundTripDone =>
        /\ \A k \in ResIdx : surf["U"][k] = surf["R"][k]
        /\ surf["U"] = FrameContent(pResources, frames["R"])
        /\ \A i \in Slots : fence[p_SharedBuffer["R"][i][2]] = IDLE

\* the sum of width*height*stride over the surfaces before the k-th
RECURSIVE SumBefore(_, _)
SumBefore(res, k) == IF k = 0 THEN 0 ELSE SumBefore(res, k - 1) + SurfaceSize(res[k - 1])

\* the copy commands of a command list
Copies(cmds) == {cmds[n] : n \in {m \in 1 .. Len(cmds) : cmds[m].op = "copy"}}

\* every copy command recorded or submitted by either process
AllCopies ==
    UNION {Copies(cmdList[p]) \cup Copies(gpuExec[p])
             \cup UNION {Copies(queue[p][n].cmds) : n \in 1 .. Len(queue[p])} : p \in Procs}

\* C8: the region of surface k in a slot starts at the sum of the sizes of surfaces 0..k-1
\* and is width*height*stride long in both directions; regions of distinct surfaces are
\* disjoint, end within the slot, and the last ends at CalculateTotalSize, the slot's size
C8_OffsetsArePrefixSums ==
    /\ \A c \in AllCopies :
          /\ c.offset = SumBefore(pResources, c.res)
          /\ c.size = SurfaceSize(pResources[c.res])
          /\ c.offset + c.size <= Cardinality(DOMAIN shared[c.buf])
          /\ c.res = NumResources - 1 => c.offset + c.size = CalculateTotalSize(pResources)
    /\ \A c, d \in AllCopies :
          (c.buf = d.buf /\ c.res # d.res) =>
              (c.offset + c.size <= d.offset \/ d.offset + d.size <= c.offset)
    /\ \A c, d \in AllCopies : c.res = d.res => c.offset = d.offset
    /\ \A i \in DOMAIN shared : DOMAIN shared[i] = 0 .. (CalculateTotalSize(pResources) - 1)
    /\ \A p \in Procs : pc[p] = "recorded" =>
          {c.res : c \in Copies(cmdList[p])} = ResIdx

\* the upscaler has recorded its copies out of a slot whose surfaces differ in size
C8_Witness ==
    /\ pc["U"] = "recorded" /\ Copies(cmdList["U"]) # {}
    /\ SurfaceSize(pResources[0]) > 1
    /\ SurfaceSize(pResources[1]) # SurfaceSize(pResources[2])

\* process p came out of CreateSharedBuffers with all its handles
Attached(p) == pc[p] \notin {"init"} /\ fault[p] # "handle"

\* C9 as stated: slot i is published as <ProcessName>_<i>_RESOURCE and <ProcessName>_<i>_FENCE
C9_NamesWithSeparator ==
    Attached("R") =>
        \A i \in Slots :
            /\ (m_pSharedName["R"] \o "_" \o to_wstring(i) \o "_RESOURCE") \in DOMAIN namedObjects
            /\ (m_pSharedName["R"] \o "_" \o to_wstring(i) \o "_FENCE") \in DOMAIN namedObjects

\* C9 amended: slot i is published as <ProcessName><i>_RESOURCE and <ProcessName><i>_FENCE,
\* no other name is published, and a consumer with the same ProcessName and slot count
\* holds, for every index, the objects the producer holds for that index
C9_NamesWithoutSeparator ==
    /\ Attached("R") =>
          /\ \A i \in Slots :
                /\ (m_pSharedName["R"] \o to_wstring(i) \o "_RESOURCE") \in DOMAIN namedObjects
                /\ (m_pSharedName["R"] \o to_wstring(i) \o "_FENCE") \in DOMAIN namedObjects
                /\ namedObjects[m_pSharedName["R"] \o to_wstring(i) \o "_RESOURCE"] =
                       [kind |-> "RESOURCE", id |-> p_SharedBuffer["R"][i][1]]
                /\ namedObjects[m_pSharedName["R"] \o to_wstring(i) \o "_FENCE"] =
                       [kind |-> "FENCE", id |-> p_SharedBuffer["R"][i][2]]
          /\ Cardinality(DOMAIN namedObjects) = 2 * m_BufferCount
    /\ (Attached("R") /\ Attached("U") /\ m_pSharedName["U"] = m_pSharedName["R"]) =>
          \A i \in Slots : p_SharedBuffer["U"][i] = p_SharedBuffer["R"][i]

\* producer and consumer are both attached to a ring of more than one slot
C9_Witness ==
    /\ Attached("R") /\ Attached("U") /\ m_BufferCount > 1
    /\ "FSR1_FENCE" \in DOMAIN namedObjects
    /\ DOMAIN p_SharedBuffer["U"] = Slots

(***************************************************************************)
(* Properties of the network buffer ring                                   *)
(***************************************************************************)
\* this step is a getNextEmptyBuffer call of thread t that returns a buffer
ReturnsEmpty(t) == tpc[t] \in {"w_locked", "o_locked"} /\ tpc'[t] = "w_have"

\* C10 as stated: a buffer getNextEmptyBuffer has returned is not returned again until
\* releaseBuffer has been called on it
C10_NotReturnedUntilReleased ==
    [][\A t \in Threads : ReturnsEmpty(t) => ~handout[tbuf'[t][1]].out]_vars

\* C10 amended: a buffer getNextEmptyBuffer has returned is not returned again until
\* releaseBuffer has been called on it or reset has emptied the ring; it is never returned
\* while it is Allocated or Ready or while another thread holds it
C10_NotReturnedUntilReleasedOrReset ==
    [][\A t \in Threads : ReturnsEmpty(t) =>
          /\ ~handout[tbuf'[t][1]].live
          /\ mState[tbuf'[t][1]] \notin {"Allocated", "Ready"}
          /\ \A u \in Threads : tbuf[u] # tbuf'[t]]_vars

\* a buffer that was handed out and released is in a writer's hands again while another
\* buffer waits Ready
C10_Witness ==
    \E t \in Threads :
        /\ tpc[t] = "w_have"
        /\ handout[tbuf[t][1]].again = "released"
        /\ \E i \in RingIdx : mState[i] = "Ready"

\* the call this step makes on the ring's interface
ThisCall == apiLog'[Len(apiLog')]

\* C11: starting from a ring whose buffers are all Empty and of size S, successive
\* getNextEmptyBuffer(S) calls with no releaseBuffer in between return DEFAULT_BUFLEN
\* pairwise different buffers, and the call after them returns null
C11_RingHandsOutEachBufferOnce ==
    run.valid =>
        /\ \A k \in 1 .. Len(run.results) :
              IF k <= DEFAULT_BUFLEN
              THEN /\ run.results[k] # nullptr
                   /\ getBufferIndex(run.results[k]) # -1
                   /\ \A j \in 1 .. (k - 1) : run.results[j] # run.results[k]
              ELSE run.results[k] = nullptr

\* all buffers were handed out and one more call has answered null
C11_Witness ==
    /\ run.valid
    /\ Len(run.results) = DEFAULT_BUFLEN + 1
    /\ run.results[DEFAULT_BUFLEN + 1] = nullptr
    /\ \E i \in RingIdx : mState[i] = "Ready"

\* C12: when reset(newSize) returns every buffer is Empty and getBufferSize() is newSize,
\* whatever the buffers' states were before
C12_ResetEmptiesAndResizes ==
    [][ThisCall.op = "reset" =>
          /\ AllEmpty(mState')
          /\ mBufferSize' = ThisCall.size
          /\ \A i \in RingIdx : mBuffers'[i].size = ThisCall.size]_vars

\* a reset that changed the size has just emptied a ring that held an Allocated and a
\* Ready buffer
C12_Witness ==
    /\ apiLog # <<>>
    /\ LET c == apiLog[Len(apiLog)]
       IN /\ c.op = "reset"
          /\ \E i, j \in RingIdx : c.pre[i] = "Allocated" /\ c.pre[j] = "Ready"
          /\ c.size = MaxBufferSize
          /\ mBufferSize = c.size
    /\ Len(apiLog) > 1
    /\ apiLog[Len(apiLog) - 1].op # "reset"
    /\ AllEmpty(mState)

\* C13 as stated: getNextReadyBuffer returns the buffer at the read cursor only if it is
\* Ready and does not advance the read cursor, which moves at releaseBuffer
C13_ReadCursorMovesAtRelease ==
    [][/\ ThisCall.op = "getNextReadyBuffer" =>
             /\ ThisCall.ret # nullptr =>
                   /\ ThisCall.ret = <<mReadIndex>>
                   /\ mState[mReadIndex] = "Ready"
             /\ mReadIndex' = mReadIndex
       /\ ThisCall.op = "releaseBuffer" /\ mState' # mState =>
             mReadIndex' = (mReadIndex + 1) % DEFAULT_BUFLEN]_vars

\* C13 amended: getNextReadyBuffer returns the buffer at the read cursor if it is Ready and
\* advances the read cursor in the same call; otherwise it returns null and leaves the
\* cursor; it changes no buffer's state, and releaseBuffer never moves the cursor
C13_ReadCursorMovesAtGet ==
    [][/\ ThisCall.op = "getNextReadyBuffer" =>
             /\ mState' = mState
             /\ IF mState[mReadIndex] = "Ready"
                THEN /\ ThisCall.ret = <<mReadIndex>>
                     /\ mReadIndex' = (mReadIndex + 1) % DEFAULT_BUFLEN
                ELSE /\ ThisCall.ret = nullptr
                     /\ mReadIndex' = mReadIndex
       /\ ThisCall.op = "releaseBuffer" => mReadIndex' = mReadIndex]_vars

\* two getNextReadyBuffer calls in a row, nothing released in between, have returned two
\* different buffers
C13_Witness ==
    /\ Len(apiLog) > 1
    /\ LET a == apiLog[Len(apiLog) - 1]
           b == apiLog[Len(apiLog)]
       IN /\ a.op = "getNextReadyBuffer"
          /\ b.op = "getNextReadyBuffer"
          /\ a.ret # nullptr
          /\ b.ret # nullptr
          /\ a.ret # b.ret

\* C15: markBufferReady and releaseBuffer change the state of the buffer their pointer
\* identifies, to Ready and to Empty, and nothing else: no cursor, no other buffer, no
\* size, no storage, and nothing at all when the pointer identifies no buffer of the ring
C15_MarkAndReleaseTouchOneBuffer ==
    [][ThisCall.op \in {"markBufferReady", "releaseBuffer"} =>
          /\ mReadIndex' = mReadIndex
          /\ mWriteIndex' = mWriteIndex
          /\ mBufferSize' = mBufferSize
          /\ mBuffers' = mBuffers
          /\ \A i \in RingIdx :
                IF <<i>> = ThisCall.buffer
                THEN mState'[i] = IF ThisCall.op = "markBufferReady" THEN "Ready" ELSE "Empty"
                ELSE mState'[i] = mState[i]]_vars

\* a pointer to no buffer of the ring was passed to releaseBuffer while a buffer was
\* Allocated and another Ready, after a markBufferReady on a buffer of the ring
C15_Witness ==
    /\ Len(apiLog) > 1
    /\ LET a == apiLog[Len(apiLog) - 1]
           b == apiLog[Len(apiLog)]
       IN /\ a.op = "markBufferReady"
          /\ getBufferIndex(a.buffer) # -1
          /\ a.pre[getBufferIndex(a.buffer)] = "Allocated"
          /\ b.op = "releaseBuffer"
          /\ getBufferIndex(b.buffer) = -1
          /\ \E i \in RingIdx : b.pre[i] = "Allocated"
    /\ \E i, j \in RingIdx : mState[i] = "Allocated" /\ mState[j] = "Ready"

\* the ring's buffers, their size and both cursors are as they were
RingUntouched ==
    /\ mState' = mState
    /\ mBuffers' = mBuffers
    /\ mBufferSize' = mBufferSize
    /\ mReadIndex' = mReadIndex
    /\ mWriteIndex' = mWriteIndex

\* C14: when the requested size differs from the ring's size, getNextEmptyBuffer returns
\* null to HandleRenderer and OutboundDataTransfer skips the frame; no buffer changes state,
\* neither cursor moves and no byte is written
C14_SizeMismatchIsRefused ==
    [][\A t \in Threads :
          /\ tpc[t] = "w_locked" /\ tpc'[t] # "w_locked" /\ treq[t] # mBufferSize =>
                /\ tpc'[t] = "w_refused"
                /\ tbuf'[t] = nullptr
                /\ RingUntouched
          /\ tpc[t] = "o_locked" /\ tpc'[t] # "o_locked" /\ treq[t] # mBufferSize =>
                /\ tpc'[t] = "o_skipped"
                /\ tbuf'[t] = nullptr
                /\ RingUntouched
          /\ tpc[t] \in {"w_refused", "o_skipped"} /\ tpc'[t] # tpc[t] =>
                /\ tpc'[t] = "idle"
                /\ RingUntouched]_vars

\* OutboundDataTransfer has skipped a frame whose size is not the ring's, while the buffer
\* at the write index is Empty and another buffer waits Ready
C14_Witness ==
    \E t \in Threads :
        /\ tpc[t] = "o_skipped"
        /\ treq[t] # mBufferSize
        /\ mState[mWriteIndex] = "Empty"
        /\ \E i \in RingIdx : mState[i] = "Ready"

\* inside a critical section of the write lock or of the read lock
InWriteSection(t) == tpc[t] \in {"w_locked", "w_have", "w_refused", "o_locked", "o_skipped"}

InReadSection(t) == tpc[t] \in {"r_locked", "r_have", "i_locked"}

\* C16: while reset changes the size, the states and the storage, no thread is inside a
\* critical section of the read lock or of the write lock, and nothing but reset's body
\* changes the size
C16_ResetIsExclusive ==
    /\ [](\A t \in Threads : tpc[t] = "z_all" =>
             \A u \in Threads \ {t} :
                 /\ ~InWriteSection(u)
                 /\ ~InReadSection(u)
                 /\ tpc[u] # "z_all"
                 /\ (tbuf[u] = nullptr \/ tpc[u] = "asserted"))
    /\ [][(mBufferSize' # mBufferSize \/ \E i \in RingIdx : mBuffers'[i].size # mBuffers[i].size) =>
             \E t \in Threads : tpc[t] = "z_all" /\ tpc'[t] = "idle"]_vars

\* a reset to another size holds all three locks over a ring with a Ready buffer, while
\* another thread waits outside the critical sections
C16_Witness ==
    \E t \in Threads :
        /\ tpc[t] = "z_all"
        /\ treq[t] # mBufferSize
        /\ mStateLock = t /\ mWriteLock = t /\ mReadLock = t
        /\ \E i \in RingIdx : mState[i] = "Ready"
        /\ \E i \in RingIdx : handout[i].again = "released"

\* C17: a buffer is never in the hands of a writer and of a reader at once: between
\* getNextEmptyBuffer and markBufferReady it is Allocated and no other thread holds it,
\* between getNextReadyBuffer and releaseBuffer it is Ready and no other thread holds it
C17_NoBufferSharedByWriterAndReader ==
    \A t \in Threads :
        /\ tpc[t] = "w_have" =>
              /\ tbuf[t] # nullptr
              /\ mState[tbuf[t][1]] = "Allocated"
              /\ \A u \in Threads \ {t} : tbuf[u] # tbuf[t]
        /\ tpc[t] = "r_have" =>
              /\ tbuf[t] # nullptr
              /\ mState[tbuf[t][1]] = "Ready"
              /\ \A u \in Threads \ {t} : tbuf[u] # tbuf[t]

\* a writer fills one buffer while a reader reads the other
C17_Witness ==
    \E t, u \in Threads :
        /\ tpc[t] = "w_have"
        /\ tpc[u] = "r_have"
        /\ tbuf[t] # tbuf[u]
        /\ handout[tbuf[t][1]].again = "released"

(***************************************************************************)
(* Properties of the relay protocol                                        *)
(***************************************************************************)
\* the units of a stream that are of one of the types
Count(stream, types) == Cardinality({k \in 1 .. Len(stream) : stream[k].t \in types})

\* requests of the relay that it has no answer to yet: on their way to the renderer, being
\* answered by HandleRelay, or answered with the answer still on its way
Outstanding ==
    Count(toRenderer, {"Reconfigure", "Continue"})
    + (IF tpc[RelayThread] \in {"h_continue", "r_locked"} THEN 1 ELSE 0)
    + Count(toRelay, {"Ack", "NotReady", "Data"})

\* this step appends the units to the stream
Sends(before, after, units) == after = before \o units /\ units # <<>>

\* C18: the protocol is stop-and-wait: the relay never has more than one unanswered request
\* outstanding, and the renderer answers a Continue with exactly one reply, Data and the
\* size of the buffers when the buffer at the read cursor is Ready and NotReady otherwise
C18_StopAndWait ==
    /\ [](Outstanding <= 1)
    /\ [][tpc[RelayThread] = "r_locked" /\ tpc'[RelayThread] # "r_locked" =>
             IF mState[mReadIndex] = "Ready"
             THEN Sends(toRelay, toRelay', <<Message("Data"), Number(mBufferSize)>>)
             ELSE Sends(toRelay, toRelay', <<Message("NotReady")>>)]_vars

\* C19: the relay sends Proceed only after getNextEmptyBuffer(size) has reserved an Empty
\* buffer of the announced size; the renderer sends payload only after it has received
\* Proceed; storage of the relay's queue is written only in the reserved buffer while it is
\* Allocated, and that buffer is then marked Ready
C19_ProceedAfterReservation ==
    /\ [][Sends(toRenderer, toRenderer', <<Message("Proceed")>>) =>
             /\ relay'.buffer # nullptr
             /\ relayQueue.mBufferSize = relay'.bufferSize
             /\ relayQueue.mState[relay'.buffer[1]] = "Empty"
             /\ relayQueue'.mState[relay'.buffer[1]] = "Allocated"]_vars
    /\ [][Count(toRelay', {"byte"}) > Count(toRelay, {"byte"}) =>
             /\ tpc[RelayThread] = "h_data"
             /\ toRenderer # <<>>
             /\ Head(toRenderer) = Message("Proceed")
             /\ toRenderer' = Tail(toRenderer)]_vars
    /\ [][relayQueue'.mBuffers # relayQueue.mBuffers =>
             /\ relay.pc = "recv_payload"
             /\ relayQueue.mState[relay.buffer[1]] = "Allocated"
             /\ relayQueue'.mState[relay.buffer[1]] = "Ready"
             /\ \A i \in RingIdx \ {relay.buffer[1]} :
                   relayQueue'.mBuffers[i] = relayQueue.mBuffers[i]]_vars
    /\ [](relay.pc = "recv_payload" =>
             /\ relay.buffer # nullptr
             /\ relayQueue.mState[relay.buffer[1]] = "Allocated")

\* a whole payload of more than one unit has arrived in a buffer of the relay that is now
\* Ready, and the relay has asked for the next one
C19_Witness ==
    /\ \E i \in RingIdx :
          /\ relayQueue.mState[i] = "Ready"
          /\ relayQueue.mBufferSize > 1
          /\ relayQueue.mBuffers[i] = Payload(relayQueue.mBufferSize)
    /\ relay.pc = "recv_type"
    /\ relay.continues > 1

\* C20: after the renderer has acknowledged Reconfigure(w, h), every Data it sends
\* announces the buffer size of the reconfigured resolution: its ring was reset to that
\* size before any further transfer
C20_DataAnnouncesReconfiguredSize ==
    [][\A n \in Sizes :
          Sends(toRelay, toRelay', <<Message("Data"), Number(n)>>) => n = acked]_vars

C22_NoFrameReleasedUndelivered ==
    [][(tpc[RelayThread] = "h_data" /\ tpc'[RelayThread] = "idle")
          => toRelay' = toRelay \o Bytes(treq[RelayThread])]_vars

(***************************************************************************)
(* Properties of the streamer                                              *)
(***************************************************************************)
\* one call of Encode calls WriteFile at most 3 times
WritesPerEncodeBounded == \A t \in Threads : enc[t].attempts <= 3

\* once an Encode has used up its tries the pipe is closed
DisabledForGood == gaveUp => ~m_isPipeOpen

\* once an Encode has used up its tries no frame is written and no copy recorded
NoWriteOnceDisabled == gaveUp => written' = written /\ copies' = copies

\* C23: Encode writes a frame at most 3 times; when every attempt has failed the pipe is
\* closed and stays closed, nothing is written or copied afterwards, and the process is
\* not terminated
C23_BoundedRetriesThenDisabled ==
    /\ [](WritesPerEncodeBounded /\ DisabledForGood /\ sfault = "none")
    /\ [][NoWriteOnceDisabled]_vars

\* the part of C23 that holds: the bound on the writes, and no way back once disabled
C23_BoundedRetriesThenDisabledUnlessCritical ==
    /\ [](WritesPerEncodeBounded /\ DisabledForGood)
    /\ [][NoWriteOnceDisabled]_vars

\* C24: once Shutdown has lowered the pipe-open flag and notified all waiters, every thread
\* that is inside the wait of Encode for its back buffer's turn leaves the wait and returns
\* from Encode; no waiter stays blocked for good, whatever the interleaving
C24_ShutdownWakesEveryWaiter ==
    \A t \in Threads :
        (shutdown = "notified" /\ enc[t].pc \in {"e_sleep", "e_blocked", "e_woken"})
            ~> (enc[t].pc = "idle")

(***************************************************************************)
(* Properties of the frame limiter                                         *)
(***************************************************************************)
\* the ticks from the first call of Execute to the return of the last one
Elapsed == lastFrame - lim.firstQpc

\* C25: CPU limiter, the work between two calls taking no time: N consecutive calls of
\* Execute take no less than the N - 1 frame times that lie between them (the weakest
\* reading of "no less than N / targetFPS seconds") and no more than N / targetFPS seconds
\* plus the lateness of the polls
C25_CpuLimiterPacesToTarget ==
    (m_LimitFPS /\ ~m_LimitGPU /\ lim.pc = "idle" /\ lim.executes >= 1 /\ lim.worked = 0)
        => /\ Elapsed * m_TargetFPS >= (lim.executes - 1) * QpcFrequency
           /\ Elapsed * m_TargetFPS <= lim.executes * (QpcFrequency + MaxOvershoot * m_TargetFPS)

\* what the CPU limiter does keep: N calls take at least N - 1 times the truncated
\* targetFrameTicks
CpuLimiterTruncatedPace ==
    (m_LimitFPS /\ ~m_LimitGPU /\ lim.pc = "idle" /\ lim.executes >= 1)
        => /\ Elapsed >= (lim.executes - 1) * targetFrameTicks
           /\ lim.worked = 0 => Elapsed <= lim.executes * (targetFrameTicks + MaxOvershoot)

\* every frame time the history holds equals the clamped target
AllSamplesOnTarget ==
    \A i \in 0 .. (Min(m_FrameTimeHistoryCount, FrameTimeHistoryLen) - 1) :
        m_FrameTimeHistory[i] = clampedTargetFrameTime

\* C26: GPU limiter: an Execute after which every frame time in the history equals the
\* clamped target leaves the overhead as it was, so the overhead stays where it is for as
\* long as the measured frame times equal the target
C26_OverheadStableOnTarget ==
    [][(m_LimitGPU /\ lim'.executes = lim.executes + 1 /\ AllSamplesOnTarget')
          => m_Overhead' = m_Overhead]_vars

\* the history has wrapped, an earlier frame time has moved the overhead off its first
\* value, and the history now holds the target only
C26_Witness ==
    /\ m_LimitFPS /\ m_LimitGPU
    /\ lim.executes = MaxExecutes
    /\ m_FrameTimeHistoryCount > FrameTimeHistoryLen
    /\ AllSamplesOnTarget
    /\ m_Overhead \notin InitialOverheads

(***************************************************************************)
(* Properties of the teardown                                              *)
(***************************************************************************)
\* a teardown that has returned has released the resource and the fence of every slot
\* the process had pointers for
ReleasedAll(p) ==
    (teardowns[p].runs >= 1 /\ ~teardowns[p].in /\ pc[p] # "terminated")
        => \A i \in DOMAIN p_SharedBuffer[p] : Releases(p, i) >= 1

FirstTeardownReleasesOnce ==
    /\ \A p \in Procs :
          /\ ReleasedAll(p)
          /\ (teardowns[p].runs = 0 \/ (teardowns[p].runs = 1 /\ ~teardowns[p].in))
                => (\A i \in DOMAIN released[p] : released[p][i] <= 1) /\ fault[p] # "release"
    /\ udta.unmaps <= udta.maps
    /\ udta.closes <= udta.maps

(***************************************************************************)
(* Properties of the transfer's fence signal                               *)
(***************************************************************************)
\* the copies into or out of shared buffer b that process p has recorded or submitted and
\* that the GPU has not finished executing
PendingCopyBufs(p) ==
    LET lists == {queue[p][n].cmds : n \in {m \in 1 .. Len(queue[p]) : queue[p][m].op = "list"}}
                    \cup {cmdList[p], gpuExec[p]}
    IN UNION {CopyBufs(cmds, TRUE) \cup CopyBufs(cmds, FALSE) : cmds \in lists}

\* C28: when the signal that PerformTransfer queued for slot i completes and sets the slot's
\* counter (to READY or to IDLE), every copy that this process recorded for the slot has
\* executed: none is left in an open command list, in the queue or on the GPU
C28_SignalAfterCopiesExecuted ==
    [][\A p \in Procs :
          (/\ queue[p] # <<>>
           /\ Head(queue[p]).op = "signal"
           /\ queue'[p] = Tail(queue[p])
           /\ gpuExec[p] = <<>>)
              => LET i == Head(queue[p]).fence
                 IN p_SharedBuffer[p][i][1] \notin PendingCopyBufs(p)]_vars

(***************************************************************************)
(* Properties of the ring's locking                                        *)
(***************************************************************************)
\* thread t holds the read or the write lock and its next step is a method of the ring
\* that takes the state lock
NeedsStateLock(t) ==
    \/ tpc[t] \in {"w_locked", "w_have", "r_locked", "r_have", "i_locked"}
    \/ tpc[t] = "o_locked" /\ treq[t] = mBufferSize

\* thread t is inside reset: it holds the state lock and its next step takes lock l
ResetWaitsFor(t, l) ==
    /\ mStateLock = t
    /\ \/ tpc[t] = "z_state" /\ l = "write"
       \/ tpc[t] = "z_write" /\ l = "read"

\* C29: the ring's locking is free of deadlock: no state is reached in which a thread inside
\* reset waits for the read or the write lock while the thread that holds that lock waits
\* for the state lock, so that neither can ever go on
C29_NoDeadlock ==
    ~ \E t1 \in Threads : \E t2 \in Threads \ {t1} :
          /\ \/ ResetWaitsFor(t1, "write") /\ mWriteLock = t2
             \/ ResetWaitsFor(t1, "read") /\ mReadLock = t2
          /\ NeedsStateLock(t2)

(***************************************************************************)
(* Properties of the ring's order                                          *)
(***************************************************************************)
\* C30: getNextReadyBuffer hands the buffers to the consumer in the order in which
\* getNextEmptyBuffer handed them to the producer: what the consumer has got is a prefix
\* of what the producer has got, from the construction of the ring and from every reset
C30_ReadyOrderIsEmptyOrder ==
    /\ Len(fifo.taken) <= Len(fifo.given)
    /\ \A k \in 1 .. Len(fifo.taken) : k <= Len(fifo.given) => fifo.taken[k] = fifo.given[k]

\* what holds of the code: the order is kept for as long as the two indices were equal when
\* the ring was constructed or last reset
FifoWhenIndicesAgree == fifo.aligned => C30_ReadyOrderIsEmptyOrder

(***************************************************************************)
(* Progress of the shared-memory handoff                                   *)
(***************************************************************************)
\* the other process
Peer(p) == IF p = "R" THEN "U" ELSE "R"

\* process p has run all the frames that are looked at, has left its main loop, or never
\* started because it could not create or open the shared handles
Stopped(p) == frames[p] = MaxFrames \/ pc[p] = "exited" \/ fault[p] = "handle"

\* the counter of slot i reads state
CounterReads(i, state) == i \in DOMAIN fence /\ fence[i] = state

\* C31: with both main loops and both queues going on whenever they can, the handoff does
\* not deadlock: a slot whose counter reads READY is consumed and reads IDLE again, and a
\* main loop that polls finds its readiness function true again, for as long as the other
\* process keeps running frames
C31_HandoffProgress ==
    /\ \A i \in 0 .. (MaxBufferCount - 1) :
          CounterReads(i, READY) ~> (CounterReads(i, IDLE) \/ Stopped("U"))
    /\ \A p \in Procs :
          (pc[p] = "poll") ~> \/ (pc[p] = "poll" /\ ReadyFunction(p))
                              \/ pc[p] = "body"
                              \/ Stopped(p)
                              \/ Stopped(Peer(p))

\* the renderer has produced its last frame and is back at the top of its main loop
ProducedLast == frames["R"] = MaxFrames /\ pc["R"] \in {"poll", "exited"}

\* every slot's counter reads IDLE, which is what the can-exit function tests
\* C32: once the renderer has stopped producing frames, with the upscaler and the queues
\* going on whenever they can, every slot returns to IDLE: the can-exit function becomes true
\* and stays true from then on, for as long as the upscaler keeps running frames
AllCountersIdle == \A i \in 0 .. (MaxBufferCount - 1) : i \in DOMAIN fence => fence[i] = IDLE

C32_CanExitEventuallyForGood ==
    ProducedLast ~> [](AllCountersIdle \/ Stopped("U"))

\* the can-exit function of the renderer is true exactly when every counter reads IDLE
CanExitReadsCounters == pc["R"] \in {"poll", "exited"} => (CanExitFunction <=> AllCountersIdle)

(***************************************************************************)
(* Backpressure of the shared-memory ring                                  *)
(***************************************************************************)
\* TransferToSharedBuffer calls of the renderer that got past the state assertion
TransferredIn == Len(produced)

\* TransferFromSharedBuffer calls of the upscaler that got past the state assertion: one per
\* frame it started, but for a frame that has not reached its transfer or was terminated in it
TransferredOut ==
    frames["U"] - (IF pc["U"] = "body" \/ (pc["U"] = "terminated" /\ fault["U"] # "handle")
                   THEN 1 ELSE 0)

\* every slot's counter reads READY
AllCountersReady == \A i \in 0 .. (MaxBufferCount - 1) : i \in DOMAIN fence => fence[i] = READY

\* C33: the frames the renderer has transferred into the ring minus the frames the upscaler
\* has transferred out of it is never below 0 and never above the slot count, and the
\* renderer's readiness function is false whenever every slot reads READY
C33_BackpressureBound ==
    /\ TransferredIn - TransferredOut >= 0
    /\ TransferredIn - TransferredOut <= m_BufferCount
    /\ (pc["R"] \in {"poll", "body", "recorded"} /\ AllCountersReady) => ~ReadyFunction("R")

(***************************************************************************)
(* Progress and order of the streamer's Encode calls                       *)
(***************************************************************************)
\* streaming has not been given up, shut down or ended by a critical failure
StreamingEnabled == shutdown = "no" /\ ~gaveUp /\ sfault = "none"

\* C34: while streaming stays enabled, every call of Encode gets its turn and returns: the
\* m_frameIndex update and the notify_all of the thread that finished index k wake the thread
\* that waits for the next index, with no lost wake-up and no stall for good
C34_EveryEncodeReturns ==
    \A t \in Threads :
        (enc[t].pc # "idle") ~> (enc[t].pc = "idle" \/ ~StreamingEnabled \/ encodes = MaxEncodes)

\* the part of Encode that runs under m_encodeMutex, from the pipe check to notify_all
InEncodeSection(t) ==
    enc[t].pc \in {"e_write", "e_terminate", "e_create", "e_fail", "e_release", "e_notify"}

\* at most one thread is in the part of Encode that writes to the pipe
OneWriterAtATime == \A t, u \in Threads : (InEncodeSection(t) /\ InEncodeSection(u)) => t = u

\* a thread about to call WriteFile for back buffer k finds m_frameIndex = k
WriteOnlyInTurn == \A t \in Threads : enc[t].pc = "e_write" => m_frameIndex = enc[t].idx

\* the thread that leaves the section has set m_frameIndex to the index after its own
IndexAdvances ==
    \A t \in Threads :
        (enc[t].pc = "e_notify" /\ enc'[t].pc = "idle")
            => m_frameIndex' = (enc[t].idx + 1) % BackBufferCount

\* C35: frames are written to the pipe by one thread at a time and in the order of the back
\* buffer indices: the frame for index k is written only when m_frameIndex equals k, and
\* m_frameIndex then becomes (k + 1) mod backBufferCount whether the write succeeded or not
C35_OneWriterInIndexOrder ==
    /\ [](OneWriterAtATime /\ WriteOnlyInTurn)
    /\ [][IndexAdvances]_vars

(***************************************************************************)
(* What a Ready buffer of the relay holds                                  *)
(***************************************************************************)
\* C36: a buffer of the relay's queue that is Ready holds all the bytes that were announced
\* for its frame, never a frame received in part, also when recv has delivered fewer bytes
\* than were asked for
C36_ReadyBufferHoldsWholeFrame ==
    \A i \in RingIdx :
        relayQueue.mState[i] = "Ready" => relayQueue.mBuffers[i] = Payload(relayQueue.mBufferSize)

(***************************************************************************)
(* The length passed to send and recv                                      *)
(***************************************************************************)
\* C37: for every payload size that passes the assertion bufferSize <= UINT32_MAX, the
\* length passed to send and to recv after the cast to int equals bufferSize
C37_CastKeepsLength == xfer.pc = "called" => xfer.len = xfer.bufferSize

(***************************************************************************)
(* The frame limiter's overhead and its history                            *)
(***************************************************************************)
\* C38: GPU limiter: after every Execute the overhead lies in [1, 1000000], so the number
\* of loops dispatched is at least 1 and at most 1000000, whatever frame times were measured
\* and whatever the target rate
C38_OverheadWithinBounds ==
    lim.executes >= 1
        => /\ m_Overhead >= MinOverhead * OverheadScale
           /\ m_Overhead <= MaxOverhead * OverheadScale
           /\ numLoops >= MinOverhead
           /\ numLoops <= MaxOverhead

\* the overhead stands at its upper bound after an Execute of the GPU limiter whose history
\* has a mean below the target, which asks for more overhead than the bound allows
C38_Witness ==
    /\ m_LimitFPS /\ m_LimitGPU
    /\ lim.executes >= 1
    /\ m_Overhead = MaxOverhead * OverheadScale
    /\ m_FrameTimeHistorySum
         < clampedTargetFrameTime * Min(m_FrameTimeHistoryCount, FrameTimeHistoryLen)

\* the sum of the first n entries of the history
RECURSIVE SumOfHistory(_)
SumOfHistory(n) == IF n = 0 THEN 0 ELSE m_FrameTimeHistory[n - 1] + SumOfHistory(n - 1)

\* C39: GPU limiter: after every Execute m_FrameTimeHistorySum is the sum of the frame
\* times the history holds, the most recent min(m_FrameTimeHistoryCount, length) of them, so
\* the mean the controller uses is the mean of exactly those samples
C39_SumIsSumOfHistory ==
    m_FrameTimeHistorySum = SumOfHistory(Min(m_FrameTimeHistoryCount, FrameTimeHistoryLen))

\* the history has wrapped and holds frame times that differ from each other
C39_Witness ==
    /\ m_LimitFPS /\ m_LimitGPU
    /\ m_FrameTimeHistoryCount > FrameTimeHistoryLen
    /\ \E i, j \in DOMAIN m_FrameTimeHistory :
          m_FrameTimeHistory[i] > 0 /\ m_FrameTimeHistory[j] > m_FrameTimeHistory[i]

(***************************************************************************)
(* What a transfer does to the counters                                    *)
(***************************************************************************)
\* the Signal that PerformTransfer of process p has queued is reached by p's queue
SignalLands(p) ==
    /\ queue[p] # <<>>
    /\ Head(queue[p]).op = "signal"
    /\ gpuExec[p] = <<>>
    /\ queue'[p] = Tail(queue[p])

\* C40: PerformTransfer on slot i changes the counter of slot i only: TransferToSharedBuffer
\* takes it from IDLE to READY, TransferFromSharedBuffer from READY to IDLE, the counters of
\* the other slots stay as they are, and no counter ever holds a value other than IDLE or READY
C40_TransferMovesOneCounter ==
    /\ [](\A i \in DOMAIN fence : fence[i] \in {IDLE, READY})
    /\ [][\A p \in Procs :
            SignalLands(p) =>
                LET e == Head(queue[p])
                IN /\ fence[e.fence] = (IF p = "R" THEN IDLE ELSE READY)
                   /\ fence'[e.fence] = (IF p = "R" THEN READY ELSE IDLE)
                   /\ \A j \in DOMAIN fence \ {e.fence} : fence'[j] = fence[j]]_vars


============================================================================
